---- MODULE Spec2Model ----
(***************************************************************************)
(* A model of vue-component-static-loader: the webpack loader that         *)
(* rewrites the object literal of a @Component decorator.                  *)
(*                                                                         *)
(* JavaScript strings are sequences of tokens: a token is one of the       *)
(* punctuation characters the code looks at ("?", "&", "=", ".", "/"), a   *)
(* percent-escape of one of them, or a run of ordinary characters.         *)
(* Syntax nodes and reconstructed values are records with a kind field.    *)
(***************************************************************************)
EXTENDS Integers, Sequences, FiniteSets, TLC

(***************************************************************************)
(* Bounds of the model.                                                    *)
(***************************************************************************)
MaxClasses == 2
MaxStyles == 2
MaxParameters == 2

(***************************************************************************)
(* String helpers.                                                         *)
(***************************************************************************)
RECURSIVE indexOf(_, _, _)
indexOf(s, tok, from) ==
  IF from > Len(s) THEN 0
  ELSE IF s[from] = tok THEN from
  ELSE indexOf(s, tok, from + 1)

RECURSIVE lastIndexOf(_, _, _)
lastIndexOf(s, tok, from) ==
  IF from < 1 THEN 0
  ELSE IF s[from] = tok THEN from
  ELSE lastIndexOf(s, tok, from - 1)

\* String.prototype.split(separator): every occurrence of the separator cuts.
RECURSIVE split(_, _)
split(s, sep) ==
  LET i == indexOf(s, sep, 1) IN
  IF i = 0 THEN <<s>>
  ELSE <<SubSeq(s, 1, i - 1)>> \o split(SubSeq(s, i + 1, Len(s)), sep)

\* String(n) for the numbers the model uses.
numberToString(n) ==
  CASE n = 0 -> <<"0">>
    [] n = 1 -> <<"1">>
    [] n = 2 -> <<"2">>
    [] n = 3 -> <<"3">>
    [] n = 4 -> <<"4">>
    [] n = 123 -> <<"123">>
    [] OTHER -> <<"NaN">>

\* Number(text) for the numeric literals the model uses.
stringToNumber(s) ==
  CASE s = <<"0">> -> 0
    [] s = <<"1">> -> 1
    [] s = <<"2">> -> 2
    [] s = <<"3">> -> 3
    [] s = <<"4">> -> 4
    [] s = <<"123">> -> 123
    [] OTHER -> -1

(***************************************************************************)
(* qs: percent-encoding, parse and stringify.                              *)
(***************************************************************************)
qsEncodeToken(tok) ==
  CASE tok = "?" -> "%3F"
    [] tok = "=" -> "%3D"
    [] tok = "&" -> "%26"
    [] tok = "/" -> "%2F"
    [] OTHER -> tok

qsDecodeToken(tok) ==
  CASE tok = "%3F" -> "?"
    [] tok = "%3D" -> "="
    [] tok = "%26" -> "&"
    [] tok = "%2F" -> "/"
    [] OTHER -> tok

qsEncode(s) == [i \in 1..Len(s) |-> qsEncodeToken(s[i])]
qsDecode(s) == [i \in 1..Len(s) |-> qsDecodeToken(s[i])]

\* Values of a query object.
JSNull == [kind |-> "null"]
JSUndefined == [kind |-> "undefined"]
JSString(s) == [kind |-> "string", text |-> s]
JSNumber(n) == [kind |-> "number", num |-> n]
JSBoolean(b) == [kind |-> "boolean", bool |-> b]

\* An object is the sequence of its entries in insertion order.
hasKey(obj, k) == \E i \in 1..Len(obj) : obj[i].key = k

getKey(obj, k) ==
  IF hasKey(obj, k)
  THEN obj[CHOOSE i \in 1..Len(obj) : obj[i].key = k].val
  ELSE JSUndefined

\* obj[k] = v: an existing key keeps its place, a new key goes last.
setKey(obj, k, v) ==
  IF hasKey(obj, k)
  THEN [i \in 1..Len(obj) |-> IF obj[i].key = k THEN [key |-> k, val |-> v] ELSE obj[i]]
  ELSE Append(obj, [key |-> k, val |-> v])

\* A slip: the entries of the source are added after those of the target.
objectAssignAppended(target, source) == target \o source

\* Object.assign(target, source)
RECURSIVE objectAssign(_, _)
objectAssign(target, source) ==
  IF source = <<>> THEN target
  ELSE objectAssign(setKey(target, source[1].key, source[1].val), Tail(source))

\* One "key=value" part of a query, parsed without strictNullHandling: a
\* part without "=" is the key with the empty string as its value.
qsParsePart(part) ==
  LET pos == indexOf(part, "=", 1) IN
  IF pos = 0
  THEN [key |-> qsDecode(part), val |-> JSString(<<>>)]
  ELSE [key |-> qsDecode(SubSeq(part, 1, pos - 1)),
        val |-> JSString(qsDecode(SubSeq(part, pos + 1, Len(part))))]

RECURSIVE qsParseParts(_, _)
qsParseParts(parts, obj) ==
  IF parts = <<>> THEN obj
  ELSE LET p == qsParsePart(parts[1]) IN
       qsParseParts(Tail(parts),
                    IF p.key = <<>> THEN obj ELSE setKey(obj, p.key, p.val))

\* qs.parse(str), for queries whose keys are distinct and have no brackets.
qsParse(str) ==
  IF str = <<>> THEN <<>> ELSE qsParseParts(split(str, "&"), <<>>)

\* The text of one value in qs.stringify.
qsValueText(v) ==
  CASE v.kind = "string" -> v.text
    [] v.kind = "number" -> numberToString(v.num)
    [] v.kind = "boolean" -> IF v.bool THEN <<"true">> ELSE <<"false">>
    [] OTHER -> <<>>

\* qs.stringify(obj, { strictNullHandling: true }): an undefined value is
\* skipped, a null value is the bare key.
RECURSIVE qsStringifyParts(_)
qsStringifyParts(obj) ==
  IF obj = <<>> THEN <<>>
  ELSE LET e == obj[1]
           rest == qsStringifyParts(Tail(obj))
           part == IF e.val.kind = "null" THEN qsEncode(e.key)
                   ELSE qsEncode(e.key) \o <<"=">> \o qsEncode(qsValueText(e.val))
       IN IF e.val.kind = "undefined" THEN rest
          ELSE IF rest = <<>> THEN part
          ELSE part \o <<"&">> \o rest

qsStringify(obj) == qsStringifyParts(obj)

(***************************************************************************)
(* parsers: parseRequiredFilename, extractExtension, getVueLoaderParameters *)
(***************************************************************************)
parseRequiredFilename(file) ==
  LET parts == split(file, "?") IN
  IF Len(parts) < 2
  THEN [file |-> parts[1], hasQuery |-> FALSE, query |-> <<>>]
  ELSE [file |-> parts[1], hasQuery |-> TRUE, query |-> qsParse(parts[2])]

\* path.extname(p): from the last "." of the last path segment to the end;
\* empty when there is no "." or the segment starts with it.
pathExtname(p) ==
  LET startPart == lastIndexOf(p, "/", Len(p)) + 1
      startDot == lastIndexOf(p, ".", Len(p))
  IN IF startDot < startPart \/ startDot = 0 \/ startDot = startPart
     THEN <<>>
     ELSE SubSeq(p, startDot, Len(p))

\* String.prototype.replace(".", ""): the first "." is removed.
replaceFirstDot(s) ==
  LET i == indexOf(s, ".", 1) IN
  IF i = 0 THEN s ELSE SubSeq(s, 1, i - 1) \o SubSeq(s, i + 1, Len(s))

\* The empty sequence stands for undefined.
extractExtension(filePath) == replaceFirstDot(pathExtname(filePath))

\* A slip: the extra parameters are assigned before id and scoped.
getVueLoaderParametersExtraFirst(filePath, id, scoped, type, extra) ==
  LET fileExtension == extractExtension(filePath)
      params == objectAssign(
                  << [key |-> <<"vue">>, val |-> JSNull],
                     [key |-> <<"type">>, val |-> JSString(<<type>>)],
                     [key |-> <<"lang">>,
                      val |-> IF fileExtension # <<>> THEN JSString(fileExtension)
                              ELSE JSUndefined] >>, extra)
  IN IF scoped
     THEN objectAssign(params, << [key |-> <<"id">>, val |-> JSString(id)],
                                  [key |-> <<"scoped">>, val |-> JSBoolean(scoped)] >>)
     ELSE params

getVueLoaderParameters(filePath, id, scoped, type, extra) ==
  LET fileExtension == extractExtension(filePath)
      params == << [key |-> <<"vue">>, val |-> JSNull],
                   [key |-> <<"type">>, val |-> JSString(<<type>>)],
                   [key |-> <<"lang">>,
                    val |-> IF fileExtension # <<>> THEN JSString(fileExtension)
                            ELSE JSUndefined] >>
      scopedParams == IF scoped
                      THEN params \o << [key |-> <<"id">>, val |-> JSString(id)],
                                        [key |-> <<"scoped">>, val |-> JSBoolean(scoped)] >>
                      ELSE params
  IN objectAssign(scopedParams, extra)

(***************************************************************************)
(* generators: addParametersToExistingQuery                                *)
(***************************************************************************)
addParametersToExistingQuery(filePath, additionalParameters) ==
  LET encode(parsed) ==
        parsed.file \o <<"?">>
          \o qsStringify(IF parsed.hasQuery
                         THEN objectAssign(parsed.query, additionalParameters)
                         ELSE additionalParameters)
  IN encode(parseRequiredFilename(filePath))

(***************************************************************************)
(* Syntax nodes (the TypeScript AST, as far as the loader looks at it).    *)
(***************************************************************************)
StringLiteral(s) == [kind |-> "StringLiteral", text |-> s]
NumericLiteral(s) == [kind |-> "NumericLiteral", text |-> s]
TrueKeyword == [kind |-> "TrueKeyword"]
FalseKeyword == [kind |-> "FalseKeyword"]
NullKeyword == [kind |-> "NullKeyword"]
Identifier(n) == [kind |-> "Identifier", ident |-> n]
PropertyAccess(o, n) == [kind |-> "PropertyAccessExpression", object |-> o, member |-> n]
CallExpression(c, a) == [kind |-> "CallExpression", expression |-> c, arguments |-> a]
ArrayLiteral(es) == [kind |-> "ArrayLiteralExpression", elements |-> es]
SpreadElement(e) == [kind |-> "SpreadElement", operand |-> e]
ObjectLiteral(ps) == [kind |-> "ObjectLiteralExpression", properties |-> ps]

\* Elements of an object literal.  nameKind is the kind of the name node.
PropertyAssignment(nk, n, init) ==
  [kind |-> "PropertyAssignment", nameKind |-> nk, name |-> n, initializer |-> init]
ShorthandPropertyAssignment(n) == [kind |-> "ShorthandPropertyAssignment", name |-> n]
SpreadAssignment(e) == [kind |-> "SpreadAssignment", operand |-> e]
Prop(n, init) == PropertyAssignment("Identifier", n, init)

SyntaxKinds ==
  {"StringLiteral", "NumericLiteral", "TrueKeyword", "FalseKeyword", "NullKeyword",
   "Identifier", "PropertyAccessExpression", "CallExpression",
   "ArrayLiteralExpression", "SpreadElement", "ObjectLiteralExpression",
   "PropertyAssignment", "ShorthandPropertyAssignment", "SpreadAssignment"}

\* ts.isLiteralExpression / ts.isToken, on the kinds of the model.
isLiteralExpression(n) == n.kind \in {"StringLiteral", "NumericLiteral"}
isToken(n) == n.kind \in {"TrueKeyword", "FalseKeyword", "NullKeyword", "Identifier"}

\* ts.createLiteral(value) for a string, a number or a boolean.
createLiteral(v) ==
  CASE v.kind = "string" -> StringLiteral(v.text)
    [] v.kind = "number" -> NumericLiteral(numberToString(v.num))
    [] v.kind = "boolean" -> IF v.bool THEN TrueKeyword ELSE FalseKeyword

(***************************************************************************)
(* Reconstructed values: strings, numbers, booleans, arrays, arbitrary     *)
(* objects (entries in insertion order), or a syntax node kept as it is.   *)
(***************************************************************************)
JSArray(es) == [kind |-> "array", elems |-> es]
JSObject(entries) == [kind |-> "object", entries |-> entries]
NodeList(ns) == [kind |-> "nodelist", nodes |-> ns]

additionalObjectLiteralAssignmentsKey == "___additionalAssignmentNodes___"
notAnASTNodeKey == "__thisIsNotAnASTNode"

typeOf(v) ==
  CASE v.kind = "string" -> "string"
    [] v.kind = "number" -> "number"
    [] v.kind = "boolean" -> "boolean"
    [] v.kind = "undefined" -> "undefined"
    [] OTHER -> "object"

\* JavaScript truthiness.
truthy(v) ==
  CASE v.kind = "string" -> v.text # <<>>
    [] v.kind = "number" -> v.num # 0
    [] v.kind = "boolean" -> v.bool
    [] v.kind \in {"undefined", "null"} -> FALSE
    [] OTHER -> TRUE

\* value[name], for any value
member(v, name) == IF v.kind = "object" THEN getKey(v.entries, name) ELSE JSUndefined

createArbitraryObject(entries) ==
  JSObject(objectAssign(<< [key |-> notAnASTNodeKey, val |-> JSBoolean(TRUE)] >>, entries))

isNodeObject(value) ==
  IF value.kind \in SyntaxKinds THEN TRUE
  ELSE /\ ~truthy(member(value, notAnASTNodeKey))
       /\ typeOf(member(value, "kind")) = "number"
       /\ typeOf(member(value, "flags")) = "number"

isStyleDescriptor(arg) ==
  /\ typeOf(arg) = "object"
  /\ typeOf(member(arg, "scoped")) = "boolean"
  /\ typeOf(member(arg, "style")) # "undefined"
  /\ truthy(member(arg, notAnASTNodeKey))

(***************************************************************************)
(* parsers: findParametersInObjectLiteral                                   *)
(***************************************************************************)
RECURSIVE findParametersInObjectLiteral(_, _, _)
RECURSIVE grab(_)
RECURSIVE traverseArray(_)
RECURSIVE findParametersLoop(_, _, _, _)

grab(subExpression) ==
  IF isLiteralExpression(subExpression)
  THEN IF subExpression.kind = "NumericLiteral"
       THEN JSNumber(stringToNumber(subExpression.text))
       ELSE JSString(subExpression.text)
  ELSE IF isToken(subExpression) /\ subExpression.kind = "TrueKeyword" THEN JSBoolean(TRUE)
  ELSE IF isToken(subExpression) /\ subExpression.kind = "FalseKeyword" THEN JSBoolean(FALSE)
  ELSE IF ~isToken(subExpression) /\ subExpression.kind = "ObjectLiteralExpression"
       THEN findParametersInObjectLiteral(subExpression, FALSE, {})
  ELSE subExpression

traverseArray(arrayExpression) ==
  JSArray([i \in 1..Len(arrayExpression.elements) |->
            LET arrayEntryExpression == arrayExpression.elements[i] IN
            IF arrayEntryExpression.kind = "ArrayLiteralExpression"
            THEN traverseArray(arrayEntryExpression)
            ELSE grab(arrayEntryExpression)])

\* The body of the forEach over expression.properties.
findParametersStep(result, propertyAssignment, hasFilter, parameters) ==
  IF propertyAssignment.kind = "PropertyAssignment"
  THEN IF propertyAssignment.nameKind \in {"Identifier", "StringLiteral"}
       THEN IF ~hasFilter \/ propertyAssignment.name \in parameters
            THEN setKey(result, propertyAssignment.name,
                        IF propertyAssignment.initializer.kind = "ArrayLiteralExpression"
                        THEN traverseArray(propertyAssignment.initializer)
                        ELSE grab(propertyAssignment.initializer))
            ELSE result
       ELSE result
  ELSE LET bucket == getKey(result, additionalObjectLiteralAssignmentsKey)
           nodes == IF typeOf(bucket) = "undefined" THEN <<>> ELSE bucket.nodes
       IN setKey(result, additionalObjectLiteralAssignmentsKey,
                 NodeList(Append(nodes, propertyAssignment)))

findParametersLoop(properties, result, hasFilter, parameters) ==
  IF properties = <<>> THEN result
  ELSE findParametersLoop(Tail(properties),
                          findParametersStep(result, properties[1], hasFilter, parameters),
                          hasFilter, parameters)

findParametersInObjectLiteral(expression, hasFilter, parameters) ==
  JSObject(findParametersLoop(expression.properties,
                              createArbitraryObject(<<>>).entries,
                              hasFilter, parameters))

(***************************************************************************)
(* generators: constructPropertyAssignment, constructObjectLiteral         *)
(***************************************************************************)
RECURSIVE constructPropertyAssignment(_, _)
RECURSIVE constructObjectLiteral(_)
RECURSIVE constructObjectLiteralEntries(_)

constructPropertyAssignment(key, value) ==
  IF typeOf(value) \in {"string", "number", "boolean"}
  THEN Prop(key, createLiteral(value))
  ELSE IF truthy(value) /\ typeOf(value) = "object"
  THEN IF value.kind = "array"
       THEN Prop(key, ArrayLiteral([i \in 1..Len(value.elems) |->
                         constructPropertyAssignment(key, value.elems[i]).initializer]))
       ELSE IF isNodeObject(value) THEN Prop(key, value)
       ELSE Prop(key, constructObjectLiteral(value))
  ELSE Prop(key, NullKeyword)

constructObjectLiteralEntries(entries) ==
  IF entries = <<>> THEN <<>>
  ELSE LET e == entries[1]
           head == IF e.key = additionalObjectLiteralAssignmentsKey THEN e.val.nodes
                   ELSE IF e.key # notAnASTNodeKey
                        THEN <<constructPropertyAssignment(e.key, e.val)>>
                   ELSE <<>>
       IN head \o constructObjectLiteralEntries(Tail(entries))

constructObjectLiteral(object) ==
  ObjectLiteral(constructObjectLiteralEntries(object.entries))

(***************************************************************************)
(* generators: transformDecoratorParameters                                *)
(***************************************************************************)
Absent == [kind |-> "undefined"]

createRequire(filePath, params) ==
  CallExpression(Identifier("require"),
                 <<StringLiteral(addParametersToExistingQuery(filePath, params))>>)

\* A slip: the template import never gets the scope of the styles.
createTemplateRequireUnscoped(filePath, scoped, id) ==
  createRequire(filePath, getVueLoaderParameters(filePath, id, FALSE, "template", <<>>))

createTemplateRequire(filePath, scoped, id) ==
  createRequire(filePath, getVueLoaderParameters(filePath, id, scoped, "template", <<>>))

createStyleRequire(filePath, scoped, id) ==
  createRequire(filePath,
                getVueLoaderParameters(filePath, id, scoped, "style",
                                       << [key |-> <<"index">>, val |-> JSNumber(0)] >>))

\* ts.isCallExpression(e) with a callee that is the identifier require
isRequireCall(expression) ==
  /\ expression.kind = "CallExpression"
  /\ expression.expression.kind = "Identifier"
  /\ expression.expression.ident = "require"

\* A slip: an import inside a descriptor loses the scoped flag.
parseStyleCallExpressionUnscoped(expression, scoped, id) ==
  LET callArguments == expression.arguments IN
  IF Len(callArguments) = 1 /\ callArguments[1].kind = "StringLiteral"
  THEN [scoped |-> FALSE, style |-> createStyleRequire(callArguments[1].text, FALSE, id)]
  ELSE [scoped |-> FALSE, style |-> expression]

parseStyleCallExpression(expression, scoped, id) ==
  LET callArguments == expression.arguments IN
  IF Len(callArguments) = 1 /\ callArguments[1].kind = "StringLiteral"
  THEN [scoped |-> scoped, style |-> createStyleRequire(callArguments[1].text, scoped, id)]
  ELSE [scoped |-> FALSE, style |-> expression]

parseStyleExpression(expression, scoped, id) ==
  IF isRequireCall(expression)
  THEN parseStyleCallExpression(expression, scoped, id)
  ELSE [scoped |-> FALSE, style |-> expression]

\* The reduce over the parsed elements of an array of styles.
RECURSIVE reduceScoped(_)
\* A slip: && instead of ||.
reduceScopedAnd(previousValue, currentValue) == previousValue /\ currentValue

reduceScopedOr(previousValue, currentValue) == previousValue \/ currentValue
reduceScoped(results) ==
  IF results = <<>> THEN FALSE
  ELSE reduceScopedOr(reduceScoped(SubSeq(results, 1, Len(results) - 1)),
                      results[Len(results)].scoped)

\* A style descriptor whose style is a string.
parseDescriptorWithPath(descriptors, id) ==
  LET parseScoped == member(descriptors, "scoped").bool IN
  [descriptors |->
     constructObjectLiteral(createArbitraryObject(
       objectAssign(descriptors.entries,
                    << [key |-> "style",
                        val |-> createStyleRequire(member(descriptors, "style").text,
                                                   parseScoped, id)] >>))),
   scoped |-> parseScoped]

\* A style descriptor whose style is anything else.
parseDescriptorWithExpression(descriptors, id) ==
  LET assign(parsedExpression) ==
        [descriptors |->
           constructObjectLiteral(createArbitraryObject(
             objectAssign(descriptors.entries,
                          << [key |-> "scoped", val |-> JSBoolean(parsedExpression.scoped)],
                             [key |-> "style", val |-> parsedExpression.style] >>))),
         scoped |-> parsedExpression.scoped]
  IN assign(parseStyleExpression(member(descriptors, "style"),
                                 member(descriptors, "scoped").bool, id))

RECURSIVE parseStyleDescriptors(_, _)
parseStyleDescriptors(descriptors, id) ==
  IF typeOf(descriptors) = "string"
  THEN [descriptors |->
          constructObjectLiteral(createArbitraryObject(
            << [key |-> "scoped", val |-> JSBoolean(FALSE)],
               [key |-> "style", val |-> createStyleRequire(descriptors.text, FALSE, id)] >>)),
        scoped |-> FALSE]
  ELSE IF typeOf(descriptors) = "object"
  THEN IF descriptors.kind = "array"
       THEN LET results == [i \in 1..Len(descriptors.elems) |->
                              parseStyleDescriptors(descriptors.elems[i], id)]
                generalResult == [i \in 1..Len(results) |-> results[i].descriptors]
            IN [descriptors |->
                  constructPropertyAssignment("any", JSArray(generalResult)).initializer,
                scoped |-> reduceScoped(results)]
       ELSE IF isStyleDescriptor(descriptors)
       THEN IF typeOf(member(descriptors, "style")) = "string"
            THEN parseDescriptorWithPath(descriptors, id)
            ELSE parseDescriptorWithExpression(descriptors, id)
       ELSE IF isNodeObject(descriptors)
       THEN [descriptors |-> parseStyleExpression(descriptors, FALSE, id).style,
             scoped |-> FALSE]
       ELSE [descriptors |-> constructObjectLiteral(descriptors), scoped |-> FALSE]
  ELSE [descriptors |-> descriptors, scoped |-> FALSE]

\* The styles part: the parse result, when the styles parameter is truthy.
stylesSpecified(parameters) == truthy(parameters.styles)

\* A slip: the number of arguments of the call is not looked at.
templateIsCompilableAnyArity(template) ==
  /\ typeOf(template) = "object"
  /\ isRequireCall(template)
  /\ Len(template.arguments) >= 1
  /\ template.arguments[1].kind = "StringLiteral"

\* The template is transformed when it is require(<string literal>).
templateIsCompilable(template) ==
  /\ typeOf(template) = "object"
  /\ isRequireCall(template)
  /\ Len(template.arguments) = 1
  /\ template.arguments[1].kind = "StringLiteral"

\* A slip: the scope identifier is injected for every component.
scopePropertyAlways(templateScoped) == TRUE

scopePropertyNeeded(templateScoped) == templateScoped

transformDecoratorParameters(parameters) ==
  LET id == parameters.scopeId
      compiled == templateIsCompilable(parameters.template)
      properties(parsed, templateScoped) ==
        [stylesProperty |->
           IF stylesSpecified(parameters)
           THEN PropertyAssignment("Identifier", "styles", parsed.descriptors)
           ELSE Absent,
         compiledProperty |->
           IF compiled THEN Prop("_compiled", TrueKeyword) ELSE Absent,
         templateSpreadAssignment |->
           IF compiled
           THEN SpreadAssignment(createTemplateRequire(parameters.template.arguments[1].text,
                                                       templateScoped, id))
           ELSE Absent,
         scopeProperty |->
           IF scopePropertyNeeded(templateScoped)
           THEN Prop("_scopeId", StringLiteral(<<"data-v-">> \o id))
           ELSE Absent]
      scopedBy(parsed) == properties(parsed, parsed.scoped)
  IN scopedBy(IF stylesSpecified(parameters)
              THEN parseStyleDescriptors(parameters.styles, id)
              ELSE [descriptors |-> Absent, scoped |-> FALSE])

(***************************************************************************)
(* generators: removeProperty, addPropertyAssignment,                      *)
(* updateDecoratorParametersObject.  They work on the property list.       *)
(***************************************************************************)
\* The index the forEach leaves in propertyIndex: the last match.
removePropertyIndex(propertyName, properties) ==
  LET matches == {i \in 1..Len(properties) :
                    /\ properties[i].kind = "PropertyAssignment"
                    /\ properties[i].nameKind \in {"Identifier", "StringLiteral"}
                    /\ properties[i].name = propertyName}
  IN IF matches = {} THEN 0 ELSE CHOOSE i \in matches : \A j \in matches : j <= i

removeProperty(propertyName, properties) ==
  LET propertyIndex == removePropertyIndex(propertyName, properties) IN
  IF propertyIndex >= 1
  THEN SubSeq(properties, 1, propertyIndex - 1)
         \o SubSeq(properties, propertyIndex + 1, Len(properties))
  ELSE properties

\* A slip: the property is put in front.
addPropertyAssignmentInFront(property, properties) == <<property>> \o properties

addPropertyAssignment(property, properties) == properties \o <<property>>

replaceProperty(fragment, name, properties) ==
  IF fragment.kind # "undefined"
  THEN addPropertyAssignment(fragment, removeProperty(name, properties))
  ELSE properties

updateDecoratorParametersObject(parameters, parameterNames, properties) ==
  LET p1 == replaceProperty(parameters.scopeProperty, parameterNames.scopeId, properties)
      p2 == replaceProperty(parameters.compiledProperty, parameterNames.compiled, p1)
      p3 == replaceProperty(parameters.templateSpreadAssignment, parameterNames.template, p2)
      p4 == replaceProperty(parameters.stylesProperty, parameterNames.styles, p3)
  IN p4

(***************************************************************************)
(* The source file: class declarations, possibly inside a namespace.       *)
(***************************************************************************)
Decorator(e) == [kind |-> "Decorator", expression |-> e]

\* A class without a name has the empty sequence as its name; a class
\* without decorators has the empty sequence of decorators.
ClassDeclaration(exported, name, decorators) ==
  [kind |-> "ClassDeclaration", exportModifier |-> exported, name |-> name,
   decorators |-> decorators]

ModuleDeclaration(exported, statements) ==
  [kind |-> "ModuleDeclaration", exportModifier |-> exported, statements |-> statements]

\* ts.createSourceFile is called with setParentNodes = false: no node of the
\* tree has its parent set.
setParentNodes == FALSE
parentKind(node, actualParentKind) ==
  IF setParentNodes THEN actualParentKind ELSE "undefined"

(***************************************************************************)
(* parsers: isNodeExported, isExportedClass, decorators                    *)
(***************************************************************************)
isNodeExported(node, actualParentKind) ==
  \/ node.exportModifier
  \/ parentKind(node, actualParentKind) = "SourceFile"

isExportedClass(node, actualParentKind) ==
  isNodeExported(node, actualParentKind) /\ node.kind = "ClassDeclaration"

isSpecifiedCallExpressionDecorator(decorator, name) ==
  /\ decorator.expression.kind = "CallExpression"
  /\ decorator.expression.expression.kind = "Identifier"
  /\ decorator.expression.expression.ident = name

\* The index of the decorator whose argument extractDecoratorParameters
\* returns, 0 when it returns null.
\* A slip: the first decorator with a literal is taken.
extractDecoratorParametersFirst(decorators, decoratorName) ==
  LET matches == {i \in 1..Len(decorators) :
                    /\ isSpecifiedCallExpressionDecorator(decorators[i], decoratorName)
                    /\ Len(decorators[i].expression.arguments) = 1
                    /\ decorators[i].expression.arguments[1].kind = "ObjectLiteralExpression"}
  IN IF matches = {} THEN 0 ELSE CHOOSE i \in matches : \A j \in matches : i <= j

extractDecoratorParameters(decorators, decoratorName) ==
  LET matches == {i \in 1..Len(decorators) :
                    /\ isSpecifiedCallExpressionDecorator(decorators[i], decoratorName)
                    /\ Len(decorators[i].expression.arguments) = 1
                    /\ decorators[i].expression.arguments[1].kind = "ObjectLiteralExpression"}
  IN IF matches = {} THEN 0 ELSE CHOOSE i \in matches : \A j \in matches : j <= i

extractTemplateRequirePath(assignment) ==
  IF /\ assignment.operand.kind = "CallExpression"
     /\ Len(assignment.operand.arguments) = 1
     /\ assignment.operand.arguments[1].kind = "StringLiteral"
  THEN JSString(assignment.operand.arguments[1].text)
  ELSE JSNull

(***************************************************************************)
(* loader: options and identifiers                                         *)
(***************************************************************************)
decoratorName == "Component"
templateParameterName == "template"
stylesParameterName == "styles"

parameterNames ==
  [scopeId |-> "_scopeId", compiled |-> "_compiled",
   template |-> templateParameterName, styles |-> stylesParameterName]

shortFilePath == <<"testResource", ".", "ts">>
request == <<"loader", "!", "testResource", ".", "ts">>

\* hash-sum: a digest, one token long, taken as injective on the inputs of
\* the model.
hash(input) ==
  CASE input = shortFilePath -> "56f9b5c2"
    [] input = shortFilePath \o <<"\n", "content1">> -> "0e2c6f0a"
    [] input = shortFilePath \o <<"\n", "content2">> -> "7d41a9be"
    [] input = request -> "3a90c1d7"
    [] OTHER -> "00000000"

\* A slip: the content is hashed in every mode.
fileScopeIdWithContent(production, content) ==
  hash(shortFilePath \o <<"\n">> \o content)

\* hash(production ? shortFilePath + "\n" + content : shortFilePath)
fileScopeId(production, content) ==
  hash(IF production THEN shortFilePath \o <<"\n">> \o content ELSE shortFilePath)

moduleIdentifier == hash(request)

\* A slip: the counter is incremented before it is used.
classScopeIdPreIncrement(scopeId, ordinal) == <<scopeId, "-">> \o numberToString(ordinal + 1)

\* `${options.scopeId}-${foundComponents}`
classScopeId(scopeId, ordinal) == <<scopeId, "-">> \o numberToString(ordinal)

\* `Component_${options.scopeId}_${foundComponents + 1}`
generatedClassName(scopeId, foundComponents) ==
  <<"Component_", scopeId, "_">> \o numberToString(foundComponents + 1)

(***************************************************************************)
(* loader: the body of traverse for one class declaration                  *)
(***************************************************************************)
\* The literal after updateDecoratorParametersObject and the injection of
\* _moduleId and __file.
injectModuleId(properties, injectModuleIdentifier, ordinal) ==
  IF injectModuleIdentifier
  THEN addPropertyAssignment(
         Prop("_moduleId", StringLiteral(<<moduleIdentifier, "-">> \o numberToString(ordinal))),
         removeProperty("_moduleId", properties))
  ELSE properties

injectFile(properties, production) ==
  IF ~production
  THEN addPropertyAssignment(Prop("__file", StringLiteral(shortFilePath)),
                             removeProperty("__file", properties))
  ELSE properties

\* componentDecoratorParameters, with the generated scope identifier
componentParameters(parametersObject, scopeId, foundComponents) ==
  LET named(parameters) ==
        [scopeId |-> classScopeId(scopeId, foundComponents),
         compiled |-> member(parameters, parameterNames.compiled),
         template |-> member(parameters, parameterNames.template),
         styles |-> member(parameters, parameterNames.styles)]
  IN named(findParametersInObjectLiteral(
             parametersObject, TRUE,
             {parameterNames.scopeId, parameterNames.compiled,
              parameterNames.template, parameterNames.styles}))

\* The counter after a class was looked at.
nextFoundComponents(foundComponents, hasParametersObject) ==
  IF hasParametersObject THEN foundComponents + 1 ELSE foundComponents

\* st is [foundComponents, componentsDescriptors, log]; opts is
\* [scopeId, production, injectModuleIdentifier].
visitClass(node, st, opts, path) ==
  LET className == IF node.name # <<>> THEN node.name
                   ELSE generatedClassName(opts.scopeId, st.foundComponents)
      index == extractDecoratorParameters(node.decorators, decoratorName)
      named == [node EXCEPT !.name = className]
      found == nextFoundComponents(st.foundComponents, TRUE)
      \* the class and the tables once the literal has its final properties
      rewritten(parametersObject, componentDecoratorParameters, transformedProperties,
                templatePath, final) ==
        [node |-> [named EXCEPT
                     !.decorators[index].expression.arguments[1].properties = final],
         st |-> [foundComponents |-> found,
                 componentsDescriptors |->
                   setKey(st.componentsDescriptors, className,
                          [scopeId |-> componentDecoratorParameters.scopeId,
                           templateFilePath |-> templatePath]),
                 log |-> Append(st.log,
                           [path |-> path,
                            className |-> className,
                            scopeId |-> componentDecoratorParameters.scopeId,
                            ordinal |-> st.foundComponents,
                            parametersObject |-> parametersObject,
                            parameters |-> componentDecoratorParameters,
                            transformedProperties |-> transformedProperties,
                            templateFilePath |-> templatePath,
                            properties |-> final])]]
      \* templatePath, updateDecoratorParametersObject, _moduleId and __file
      updated(parametersObject, componentDecoratorParameters, transformedProperties) ==
        rewritten(parametersObject, componentDecoratorParameters, transformedProperties,
                  IF transformedProperties.templateSpreadAssignment.kind # "undefined"
                  THEN extractTemplateRequirePath(transformedProperties.templateSpreadAssignment)
                  ELSE JSNull,
                  injectFile(
                    injectModuleId(
                      updateDecoratorParametersObject(transformedProperties, parameterNames,
                                                      parametersObject.properties),
                      opts.injectModuleIdentifier, found - 1),
                    opts.production))
      transformed(parametersObject, componentDecoratorParameters) ==
        updated(parametersObject, componentDecoratorParameters,
                transformDecoratorParameters(componentDecoratorParameters))
      withParameters(parametersObject) ==
        transformed(parametersObject,
                    componentParameters(parametersObject, opts.scopeId, st.foundComponents))
  IN IF index = 0 THEN [node |-> named, st |-> st]
     ELSE withParameters(node.decorators[index].expression.arguments[1])

\* traverse(node) for one child innerNode of a node of kind parent
RECURSIVE traverseChild(_, _, _, _, _)
RECURSIVE traverseChildren(_, _, _, _, _, _)

traverseChild(innerNode, parent, st, opts, path) ==
  IF isExportedClass(innerNode, parent) /\ innerNode.decorators # <<>>
  THEN visitClass(innerNode, st, opts, path)
  ELSE IF innerNode.kind = "ModuleDeclaration"
  THEN LET r == traverseChildren(innerNode.statements, 1, "ModuleBlock", st, opts, path)
       IN [node |-> [innerNode EXCEPT !.statements = r.nodes], st |-> r.st]
  ELSE [node |-> innerNode, st |-> st]

traverseChildren(nodes, i, parent, st, opts, path) ==
  IF i > Len(nodes) THEN [nodes |-> nodes, st |-> st]
  ELSE LET r == traverseChild(nodes[i], parent, st, opts, Append(path, i))
       IN traverseChildren([nodes EXCEPT ![i] = r.node], i + 1, parent, r.st, opts, path)

(***************************************************************************)
(* generators: the hot reload calls                                        *)
(***************************************************************************)
generateComponentsHotReloadCalls(componentsHMRDescriptors, methodName) ==
  [i \in 1..Len(componentsHMRDescriptors) |->
     [method |-> methodName,
      scopeId |-> componentsHMRDescriptors[i].val.scopeId,
      className |-> componentsHMRDescriptors[i].key]]

RECURSIVE generateComponentsTemplateHotReloadCalls(_)
generateComponentsTemplateHotReloadCalls(componentsHMRDescriptors) ==
  IF componentsHMRDescriptors = <<>> THEN <<>>
  ELSE LET d == componentsHMRDescriptors[1].val
           rest == generateComponentsTemplateHotReloadCalls(Tail(componentsHMRDescriptors))
       IN IF truthy(d.templateFilePath)
          THEN << [method |-> "rerender", scopeId |-> d.scopeId,
                   templateFilePath |-> d.templateFilePath.text] >> \o rest
          ELSE rest

\* A slip: the production build is not looked at.
needsHotReloadInProduction(isServer, production, hotReload) ==
  ~isServer /\ hotReload

needsHotReload(isServer, production, hotReload) ==
  ~isServer /\ ~production /\ hotReload

(***************************************************************************)
(* The inputs of the model: style values, template values, decorator       *)
(* literals, classes and files.                                            *)
(***************************************************************************)
CssPath == <<"test", ".", "css">>
CssPathWithQuery == <<"test", ".", "css", "?", "x", "=", "1">>
CssPathTwoQueries == <<"test", ".", "css", "?", "x", "=", "1", "?", "y", "=", "2">>
PlainPath == <<"theme">>
EmptyPath == <<>>
PugPath == <<".", "/", "test", ".", "pug">>
PugPathWithQuery == <<".", "/", "test", ".", "pug", "?", "someExistingQuery", "=", "true">>

RequireCall(p) == CallExpression(Identifier("require"), <<StringLiteral(p)>>)

\* Expressions the loader does not interpret.
OpaqueExpressions ==
  { Identifier("identifier"),
    CallExpression(Identifier("require"), <<Identifier("name")>>),
    CallExpression(Identifier("require"), <<StringLiteral(CssPath), StringLiteral(CssPath)>>),
    CallExpression(Identifier("require"), <<>>),
    CallExpression(PropertyAccess(Identifier("loader"), "require"), <<StringLiteral(CssPath)>>),
    CallExpression(Identifier("load"), <<StringLiteral(CssPath)>>) }

PrimitiveExpressions ==
  { NumericLiteral(<<"123">>), NumericLiteral(<<"0">>), TrueKeyword, FalseKeyword }

StringStyles ==
  { StringLiteral(p) : p \in {CssPath, CssPathWithQuery, CssPathTwoQueries, PlainPath, EmptyPath} }
RequireStyles == { RequireCall(p) : p \in {CssPath, CssPathWithQuery} }

\* Objects that are not style descriptors.
PlainObjects ==
  { ObjectLiteral(<<SpreadAssignment(Identifier("identifier"))>>),
    ObjectLiteral(<<ShorthandPropertyAssignment("shorthandProp"),
                    Prop("test", ObjectLiteral(<<Prop("scoped", TrueKeyword),
                                                 Prop("style", FalseKeyword)>>))>>),
    ObjectLiteral(<<Prop("scoped", TrueKeyword)>>),
    ObjectLiteral(<<Prop("media", StringLiteral(<<"print">>))>>),
    ObjectLiteral(<<>>) }

\* Objects whose entries the parser cannot key, or keys twice.
OddObjects ==
  { ObjectLiteral(<<PropertyAssignment("ComputedPropertyName", "key", Identifier("value")),
                    Prop("media", StringLiteral(<<"print">>))>>),
    ObjectLiteral(<<SpreadAssignment(Identifier("first")),
                    Prop("media", StringLiteral(<<"print">>)),
                    SpreadAssignment(Identifier("second"))>>),
    ObjectLiteral(<<Prop("media", StringLiteral(<<"print">>)),
                    Prop("media", StringLiteral(<<"screen">>))>>),
    ObjectLiteral(<<PropertyAssignment("StringLiteral", "media-query",
                                       StringLiteral(<<"print">>))>>) }

\* The style field of a descriptor.
DescriptorStyles ==
  { StringLiteral(CssPath), StringLiteral(EmptyPath), RequireCall(CssPath),
    Identifier("identifier"),
    CallExpression(Identifier("require"), <<Identifier("name")>>),
    CallExpression(Identifier("require"), <<StringLiteral(CssPath), StringLiteral(CssPath)>>),
    CallExpression(PropertyAccess(Identifier("loader"), "require"), <<StringLiteral(CssPath)>>),
    NumericLiteral(<<"123">>), FalseKeyword,
    ObjectLiteral(<<Prop("media", StringLiteral(<<"print">>))>>),
    ObjectLiteral(<<PropertyAssignment("ComputedPropertyName", "key", Identifier("value"))>>),
    ArrayLiteral(<<StringLiteral(CssPath)>>) }

Descriptor(scoped, style) ==
  ObjectLiteral(<<Prop("scoped", IF scoped THEN TrueKeyword ELSE FalseKeyword),
                  Prop("style", style)>>)

Descriptors ==
  { Descriptor(b, e) : b \in BOOLEAN, e \in DescriptorStyles }
    \cup { ObjectLiteral(<<Prop("style", StringLiteral(CssPath)), Prop("scoped", TrueKeyword),
                           Prop("media", StringLiteral(<<"print">>))>>),
           ObjectLiteral(<<SpreadAssignment(Identifier("identifier")),
                           Prop("scoped", TrueKeyword), Prop("style", RequireCall(CssPath))>>) }

\* The elements of the sequences of the model.
SequenceElements ==
  { StringLiteral(CssPath), StringLiteral(EmptyPath), RequireCall(CssPath),
    Identifier("identifier"), NumericLiteral(<<"123">>), FalseKeyword,
    SpreadElement(Identifier("second")),
    ObjectLiteral(<<SpreadAssignment(Identifier("identifier"))>>),
    Descriptor(TRUE, StringLiteral(CssPath)), Descriptor(TRUE, Identifier("identifier")),
    Descriptor(TRUE, RequireCall(CssPath)), Descriptor(FALSE, RequireCall(CssPath)) }

SequencesOf(S, n) == UNION { [1..m -> S] : m \in 0..n }

NestedSequences ==
  { ArrayLiteral(<<ArrayLiteral(<<e>>)>>) : e \in SequenceElements }
    \cup { ArrayLiteral(<<StringLiteral(CssPath), ArrayLiteral(<<e, Identifier("identifier")>>)>>) :
             e \in SequenceElements }

StyleSequences ==
  { ArrayLiteral(es) : es \in SequencesOf(SequenceElements, MaxStyles) } \cup NestedSequences

StyleValues ==
  StringStyles \cup RequireStyles \cup OpaqueExpressions \cup PrimitiveExpressions
    \cup PlainObjects \cup OddObjects \cup Descriptors \cup StyleSequences

\* The template values.
TemplateValues ==
  { StringLiteral(PugPath), ArrayLiteral(<<StringLiteral(PugPath)>>),
    Identifier("identifier"), NumericLiteral(<<"123">>),
    ObjectLiteral(<<Prop("render", Identifier("identifier"))>>),
    CallExpression(Identifier("require"), <<>>),
    CallExpression(Identifier("require"), <<StringLiteral(PugPath), StringLiteral(PugPath)>>),
    CallExpression(Identifier("require"), <<Identifier("name")>>),
    CallExpression(PropertyAccess(Identifier("loader"), "require"), <<StringLiteral(PugPath)>>),
    CallExpression(Identifier("load"), <<StringLiteral(PugPath)>>),
    RequireCall(PugPath), RequireCall(PugPathWithQuery), RequireCall(PlainPath) }

\* A value that is not there.
NoValue == [kind |-> "none"]

\* The decorator literal { template: t, styles: s, components: Cart }.
Literal(t, s) ==
  ObjectLiteral(
    (IF t.kind = "none" THEN <<>> ELSE <<Prop("template", t)>>)
      \o (IF s.kind = "none" THEN <<>> ELSE <<Prop("styles", s)>>)
      \o <<Prop("components", Identifier("Cart"))>>)

\* Every style value with a few templates, every template value with a few
\* style values.
Literals ==
  { Literal(t, s) : t \in {NoValue, RequireCall(PugPath), StringLiteral(PugPath)},
                    s \in StyleValues }
    \cup { Literal(t, s) : t \in TemplateValues \cup {NoValue},
                           s \in {NoValue, StringLiteral(CssPath),
                                  Descriptor(TRUE, RequireCall(CssPath))} }

ComponentDecorator(args) == Decorator(CallExpression(Identifier("Component"), args))

ScopedLiteral == Literal(RequireCall(PugPath), Descriptor(TRUE, RequireCall(CssPath)))
PlainLiteral == Literal(RequireCall(PugPath), StringLiteral(CssPath))

\* Lists of decorators of a class.
DecoratorLists ==
  { <<>>,
    <<ComponentDecorator(<<ScopedLiteral>>)>>,
    <<ComponentDecorator(<<PlainLiteral>>)>>,
    <<Decorator(Identifier("Component"))>>,
    <<ComponentDecorator(<<>>)>>,
    <<ComponentDecorator(<<Identifier("options")>>)>>,
    <<ComponentDecorator(<<PlainLiteral, PlainLiteral>>)>>,
    <<Decorator(CallExpression(Identifier("Other"), <<PlainLiteral>>))>>,
    <<ComponentDecorator(<<PlainLiteral>>), ComponentDecorator(<<ScopedLiteral>>)>> }

\* The name of the class at a place of the file.
ClassNames == <<"A", "B", "C", "D">>

\* Classes: exported and named with each list of decorators, and the other
\* combinations of export and name with some of them.
ClassShapes ==
  { [exportModifier |-> TRUE, named |-> TRUE, decorators |-> ds] : ds \in DecoratorLists }
    \cup { [exportModifier |-> e, named |-> n, decorators |-> ds] :
             e \in BOOLEAN, n \in BOOLEAN,
             ds \in { <<ComponentDecorator(<<PlainLiteral>>)>>,
                      <<Decorator(Identifier("Component"))>> } }

ClassAt(shape, i) ==
  ClassDeclaration(shape.exportModifier,
                   IF shape.named THEN <<ClassNames[i]>> ELSE <<>>,
                   shape.decorators)

\* Files of several classes, the last one possibly inside a namespace.
ClassFiles ==
  { [i \in 1..Len(shapes) |-> ClassAt(shapes[i], i)] :
      shapes \in UNION { [1..m -> ClassShapes] : m \in 1..MaxClasses } }

NamespaceFiles ==
  { <<ClassAt(s1, 1), ModuleDeclaration(e, <<ClassAt(s2, 2)>>), ClassAt(s1, 3)>> :
      s1 \in { s \in ClassShapes : s.named /\ s.exportModifier },
      s2 \in { s \in ClassShapes : s.named }, e \in BOOLEAN }

\* A class and a class of the same name inside a namespace.
SameNameFiles ==
  { <<ClassAt(s1, 1), ModuleDeclaration(TRUE, <<ClassAt(s2, 1)>>)>> :
      s1 \in { s \in ClassShapes : s.named /\ s.exportModifier },
      s2 \in { s \in ClassShapes : s.named /\ s.exportModifier } }

\* Literals in which the author wrote _moduleId, up to MaxModuleIds times.
MaxModuleIds == 2

ModuleIdLiteral(n) ==
  ObjectLiteral([i \in 1..n |-> Prop("_moduleId", StringLiteral(<<"own">> \o numberToString(i)))]
                  \o PlainLiteral.properties)

ModuleIdFiles ==
  { <<ClassDeclaration(TRUE, <<"A">>, <<ComponentDecorator(<<ModuleIdLiteral(n)>>)>>),
      ClassDeclaration(TRUE, <<"B">>, <<ComponentDecorator(<<ModuleIdLiteral(m)>>)>>)>> :
      n \in 0..MaxModuleIds, m \in 0..MaxModuleIds }

\* Literals in which the author wrote the key of a slot twice.
DuplicateLiteral(name, first, second) ==
  ObjectLiteral(<<Prop(name, first),
                  Prop("template", RequireCall(PugPath)),
                  Prop("styles", Descriptor(TRUE, RequireCall(CssPath))),
                  Prop(name, second),
                  Prop("components", Identifier("Cart"))>>)

DuplicateLiterals ==
  { DuplicateLiteral("template", RequireCall(PlainPath), RequireCall(PugPath)),
    DuplicateLiteral("styles", StringLiteral(CssPath), RequireCall(CssPath)),
    DuplicateLiteral("_scopeId", StringLiteral(<<"own1">>), StringLiteral(<<"own2">>)),
    DuplicateLiteral("_compiled", StringLiteral(<<"own1">>), StringLiteral(<<"own2">>)) }

DuplicateFiles ==
  { <<ClassDeclaration(TRUE, <<"A">>, <<ComponentDecorator(<<l>>)>>)>> : l \in DuplicateLiterals }

\* Classes with several applications of the decorator, the last of them
\* with a literal or without.
SeveralApplications ==
  { <<ComponentDecorator(<<ScopedLiteral>>), ComponentDecorator(<<Identifier("options")>>)>>,
    <<ComponentDecorator(<<ScopedLiteral>>), ComponentDecorator(<<>>)>>,
    <<ComponentDecorator(<<PlainLiteral>>), ComponentDecorator(<<ScopedLiteral>>),
      ComponentDecorator(<<PlainLiteral, PlainLiteral>>)>>,
    <<ComponentDecorator(<<ScopedLiteral>>), ComponentDecorator(<<PlainLiteral>>)>>,
    <<ComponentDecorator(<<PlainLiteral>>), ComponentDecorator(<<PlainLiteral>>)>> }

SeveralApplicationsFiles ==
  { <<ClassDeclaration(TRUE, <<"A">>, ds)>> : ds \in SeveralApplications }

\* Files of one exported class H with one decorator literal.
LiteralFiles ==
  { <<ClassDeclaration(TRUE, <<"H">>, <<ComponentDecorator(<<l>>)>>)>> : l \in Literals }

Files == ClassFiles \cup NamespaceFiles \cup SameNameFiles \cup ModuleIdFiles
           \cup DuplicateFiles \cup SeveralApplicationsFiles \cup LiteralFiles

Contents == { <<"content1">>, <<"content2">> }

\* The source text has the marker when a decorator of the file names it.
RECURSIVE mentionsDecorator(_)
mentionsDecorator(statements) ==
  \E i \in 1..Len(statements) :
    IF statements[i].kind = "ModuleDeclaration"
    THEN mentionsDecorator(statements[i].statements)
    ELSE \E j \in 1..Len(statements[i].decorators) :
           LET e == statements[i].decorators[j].expression IN
           \/ e.kind = "Identifier" /\ e.ident = decoratorName
           \/ e.kind = "CallExpression" /\ e.expression.kind = "Identifier"
                /\ e.expression.ident = decoratorName

(***************************************************************************)
(* The runtime decorator: Component(options)(componentClass).  Values of   *)
(* the options at run time are records with a kind.                        *)
(***************************************************************************)
RtUndefined == [kind |-> "undefined"]
RtPrimitive(type, isTruthy) == [kind |-> "primitive", type |-> type, truthy |-> isTruthy]
\* What importing a stylesheet gives: an object, with __inject__ or without.
RtModule(name, hasInject) == [kind |-> "module", name |-> name, hasInject |-> hasInject]
RtDescriptor(scoped, style) == [kind |-> "descriptor", scoped |-> scoped, style |-> style]
RtArray(elements) == [kind |-> "array", elements |-> elements]
RtFunction(name) == [kind |-> "function", name |-> name, injectableStyles |-> <<>>]

rtTypeof(v) ==
  CASE v.kind = "undefined" -> "undefined"
    [] v.kind = "primitive" -> v.type
    [] v.kind = "function" -> "function"
    [] OTHER -> "object"

rtTruthy(v) ==
  CASE v.kind = "undefined" -> FALSE
    [] v.kind = "primitive" -> v.truthy
    [] OTHER -> TRUE

\* typeof style === "object" && typeof style.__inject__ === "function"
isInjectable(style) == rtTypeof(style) = "object" /\ style.kind = "module" /\ style.hasInject

\* typeof style.scoped === "boolean" && typeof style.style === "object"
isDescriptor(style) ==
  /\ style.kind = "descriptor"
  /\ rtTypeof(style.scoped) = "boolean"
  /\ rtTypeof(style.style) = "object"

\* inject(style): the list of injectable styles after the call.
inject(injectableStyles, style) ==
  LET pushed(unwrapped) ==
        IF isInjectable(unwrapped) THEN Append(injectableStyles, unwrapped)
        ELSE injectableStyles
  IN pushed(IF isDescriptor(style) THEN style.style ELSE style)

RECURSIVE injectAll(_, _, _)
injectAll(injectableStyles, elements, i) ==
  IF i > Len(elements) THEN injectableStyles
  ELSE injectAll(inject(injectableStyles, elements[i]), elements, i + 1)

\* The list of injectable styles of the options.
collectInjectableStyles(styles) ==
  IF styles.kind = "array" THEN injectAll(<<>>, styles.elements, 1)
  ELSE IF rtTruthy(styles) THEN inject(<<>>, styles)
  ELSE <<>>

\* The closure over the list of injectable styles.
ssrHook(injectableStyles) ==
  [kind |-> "function", name |-> "hook", injectableStyles |-> injectableStyles]

\* A slip: the hook is put before the hooks of the options.
beforeCreateWithHookFirst(existing, hook) ==
  IF rtTruthy(existing)
  THEN <<hook>> \o (IF existing.kind = "array" THEN existing.elements ELSE <<existing>>)
  ELSE <<hook>>

\* existing ? [].concat(existing, hook) : [hook]
beforeCreateWithHook(existing, hook) ==
  IF rtTruthy(existing)
  THEN (IF existing.kind = "array" THEN existing.elements ELSE <<existing>>) \o <<hook>>
  ELSE <<hook>>

\* The method of the class itself is pushed when the prototype has one.
beforeCreateWithOwn(hooks, componentClass) ==
  IF componentClass.beforeCreate = "method"
  THEN Append(hooks, RtFunction("own"))
  ELSE hooks

\* The options that componentFactory receives, for options that are not the
\* class itself.
decoratedOptions(options, componentClass) ==
  LET withHooks(injectableStyles) ==
        IF Len(injectableStyles) > 0
        THEN [options EXCEPT
                !.ssrRegister = ssrHook(injectableStyles),
                !.beforeCreate =
                   RtArray(beforeCreateWithOwn(
                             beforeCreateWithHook(options.beforeCreate,
                                                  ssrHook(injectableStyles)),
                             componentClass))]
        ELSE options
  IN IF options.moduleId
     THEN withHooks(collectInjectableStyles(options.styles))
     ELSE options

\* What a call of a function of the options does: the hook calls __inject__
\* of its styles in turn, another function is a call of its own.
callsOf(f) ==
  IF f.name = "hook"
  THEN [i \in 1..Len(f.injectableStyles) |-> f.injectableStyles[i].name]
  ELSE <<f.name>>

RECURSIVE callsOfAll(_, _)
callsOfAll(functions, i) ==
  IF i > Len(functions) THEN <<>>
  ELSE callsOf(functions[i]) \o callsOfAll(functions, i + 1)

\* Inputs of the runtime decorator.
MaxRuntimeStyles == 2

RuntimeStyleElements ==
  { RtModule("a", TRUE), RtModule("b", TRUE), RtModule("p", FALSE),
    RtPrimitive("string", TRUE), RtPrimitive("boolean", FALSE),
    RtDescriptor(RtPrimitive("boolean", TRUE), RtModule("c", TRUE)),
    RtDescriptor(RtPrimitive("boolean", FALSE), RtModule("q", FALSE)),
    RtDescriptor(RtPrimitive("boolean", TRUE), RtPrimitive("string", TRUE)) }

RuntimeStyles ==
  {RtUndefined} \cup RuntimeStyleElements
    \cup { RtArray(e) :
             e \in UNION { [1..n -> RuntimeStyleElements] : n \in 0..MaxRuntimeStyles } }

RuntimeHooks ==
  { RtUndefined, RtFunction("mixin"),
    RtArray(<<RtFunction("first"), RtFunction("second")>>) }

RuntimeOptions ==
  { [moduleId |-> m, styles |-> st, beforeCreate |-> b, ssrRegister |-> RtUndefined] :
      m \in BOOLEAN, st \in RuntimeStyles, b \in RuntimeHooks }

RuntimeClasses == { [beforeCreate |-> o] : o \in {"none", "method", "accessor"} }

NoRuntime ==
  [pc |-> "off", options |-> RtUndefined, componentClass |-> [beforeCreate |-> "none"],
   passed |-> RtUndefined, calls |-> <<>>]

(***************************************************************************)
(* The loader as a state machine: one invocation on one file.              *)
(***************************************************************************)
VARIABLES
  source,                \* the content: [hasMarker, text, statements]
  production,            \* options.production
  target,                \* this.target
  hotReload,             \* options.hotReload
  pc,                    \* "start", "traverse" or "done"
  root,                  \* the statements of the parsed source file
  cursor,                \* the child of the source file traverse is at
  foundComponents,
  componentsDescriptors,
  log,                   \* the locals of traverse, per processed class
  result,                \* what the callback received
  codec,                 \* calls of addParametersToExistingQuery
  runtime                \* an application of the runtime decorator

vars == <<source, production, target, hotReload, pc, root, cursor,
          foundComponents, componentsDescriptors, log, result, codec, runtime>>

inputs == <<source, production, target, hotReload>>

NoGlue == [present |-> FALSE, createRecord |-> <<>>, reload |-> <<>>, rerender |-> <<>>]
NoResult == [called |-> FALSE, error |-> JSNull, unchanged |-> FALSE,
             statements |-> <<>>, glue |-> NoGlue]

Sources ==
  { [hasMarker |-> m, text |-> t, statements |-> f] :
      m \in BOOLEAN, t \in Contents,
      f \in ClassFiles \cup NamespaceFiles \cup SameNameFiles \cup ModuleIdFiles
               \cup DuplicateFiles \cup SeveralApplicationsFiles }

NoCodec == [pc |-> "idle", path |-> <<>>, first |-> <<>>, second |-> <<>>,
            once |-> <<>>, twice |-> <<>>, merged |-> <<>>]

InitState ==
  /\ pc = "start"
  /\ root = <<>>
  /\ cursor = 0
  /\ foundComponents = 0
  /\ componentsDescriptors = <<>>
  /\ log = <<>>
  /\ result = NoResult

\* Files of classes under every combination of options; files of one
\* decorator literal for the browser, with hot reload.
Init ==
  /\ \/ /\ source \in { s \in Sources : mentionsDecorator(s.statements) => s.hasMarker }
        /\ production \in BOOLEAN
        /\ target \in {"web", "node"}
        /\ hotReload \in BOOLEAN
     \/ /\ source \in { [hasMarker |-> TRUE, text |-> <<"content1">>, statements |-> f] :
                          f \in LiteralFiles }
        /\ production \in BOOLEAN
        /\ target = "web"
        /\ hotReload = TRUE
  /\ InitState
  /\ codec = NoCodec
  /\ runtime = NoRuntime

\* A slip: the test for the marker is left out.
markerFoundAlways(content) == TRUE

\* new RegExp(`@${options.decoratorName}`).test(content)
markerFound(content) == content.hasMarker

\* No decorator marker in the text: the content goes back as it came.
FastPath ==
  /\ pc = "start"
  /\ ~markerFound(source)
  /\ result' = [NoResult EXCEPT !.called = TRUE, !.unchanged = TRUE,
                                !.statements = source.statements]
  /\ pc' = "done"
  /\ UNCHANGED <<inputs, root, cursor, foundComponents, componentsDescriptors, log, codec, runtime>>

\* ts.createSourceFile and the start of rewrite.
Begin ==
  /\ pc = "start"
  /\ markerFound(source)
  /\ root' = source.statements
  /\ cursor' = 1
  /\ foundComponents' = 0
  /\ componentsDescriptors' = <<>>
  /\ pc' = "traverse"
  /\ UNCHANGED <<inputs, log, result, codec, runtime>>

rewriteOptions ==
  [scopeId |-> fileScopeId(production, source.text),
   production |-> production,
   injectModuleIdentifier |-> (target = "node")]

\* traverse on the next child of the source file.
Traverse ==
  /\ pc = "traverse"
  /\ cursor <= Len(root)
  /\ \E r \in { traverseChild(root[cursor], "SourceFile",
                                [foundComponents |-> foundComponents,
                                 componentsDescriptors |-> componentsDescriptors,
                                 log |-> log],
                                rewriteOptions, <<cursor>>) } :
       /\ root' = [root EXCEPT ![cursor] = r.node]
       /\ foundComponents' = r.st.foundComponents
       /\ componentsDescriptors' = r.st.componentsDescriptors
       /\ log' = r.st.log
  /\ cursor' = cursor + 1
  /\ UNCHANGED <<inputs, pc, result, codec, runtime>>

hotReloadGlue(descriptors) ==
  [present |-> TRUE,
   createRecord |-> generateComponentsHotReloadCalls(descriptors, "createRecord"),
   reload |-> generateComponentsHotReloadCalls(descriptors, "reload"),
   rerender |-> generateComponentsTemplateHotReloadCalls(descriptors)]

\* The printed tree, the hot reload code and the callback.
Finish ==
  /\ pc = "traverse"
  /\ cursor > Len(root)
  /\ result' = [called |-> TRUE, error |-> JSNull, unchanged |-> FALSE,
                statements |-> root,
                glue |-> IF needsHotReload(target = "node", production, hotReload)
                         THEN hotReloadGlue(componentsDescriptors)
                         ELSE NoGlue]
  /\ pc' = "done"
  /\ UNCHANGED <<inputs, root, cursor, foundComponents, componentsDescriptors, log, codec, runtime>>

Next == FastPath \/ Begin \/ Traverse \/ Finish

Spec == Init /\ [][Next]_vars

(***************************************************************************)
(* Vocabulary of the properties: what the source text of a class says,     *)
(* read off the syntax tree, and what the rewritten literal contains.      *)
(***************************************************************************)
\* The initializer of the last property of that name, NoValue without one.
propertyOf(properties, name) ==
  LET matches == {i \in 1..Len(properties) :
                    /\ properties[i].kind = "PropertyAssignment"
                    /\ properties[i].nameKind \in {"Identifier", "StringLiteral"}
                    /\ properties[i].name = name}
  IN IF matches = {} THEN NoValue
     ELSE properties[CHOOSE i \in matches : \A j \in matches : j <= i].initializer

hasProperty(properties, name) == propertyOf(properties, name).kind # "none"

authoredStyles(e) == propertyOf(e.parametersObject.properties, "styles")
authoredTemplate(e) == propertyOf(e.parametersObject.properties, "template")
emittedStyles(e) == propertyOf(e.properties, "styles")

\* require(<one string literal>)
IsImportCall(n) ==
  /\ n.kind = "CallExpression"
  /\ n.expression.kind = "Identifier"
  /\ n.expression.ident = "require"
  /\ Len(n.arguments) = 1
  /\ n.arguments[1].kind = "StringLiteral"

\* An object literal with a boolean scoped field and a style field.
IsDescriptorLiteral(n) ==
  /\ n.kind = "ObjectLiteralExpression"
  /\ propertyOf(n.properties, "scoped").kind \in {"TrueKeyword", "FalseKeyword"}
  /\ hasProperty(n.properties, "style")

\* A descriptor marked scoped: true whose style is a path or an import.
IsScopingDescriptor(n) ==
  /\ IsDescriptorLiteral(n)
  /\ propertyOf(n.properties, "scoped").kind = "TrueKeyword"
  /\ LET style == propertyOf(n.properties, "style") IN
     style.kind = "StringLiteral" \/ IsImportCall(style)

\* The scoping verdict of a styles value: its own when it is a descriptor,
\* that of any element when it is a sequence.
RECURSIVE ScopingVerdict(_)
ScopingVerdict(n) ==
  IF n.kind = "ArrayLiteralExpression"
  THEN \E i \in 1..Len(n.elements) : ScopingVerdict(n.elements[i])
  ELSE IsScopingDescriptor(n)

\* scoped: true written anywhere in the value
RECURSIVE ContainsScopedTrue(_)
ContainsScopedTrue(n) ==
  CASE n.kind = "ObjectLiteralExpression" ->
         \E i \in 1..Len(n.properties) : ContainsScopedTrue(n.properties[i])
    [] n.kind = "PropertyAssignment" ->
         \/ n.name = "scoped" /\ n.initializer.kind = "TrueKeyword"
         \/ ContainsScopedTrue(n.initializer)
    [] n.kind = "ArrayLiteralExpression" ->
         \E i \in 1..Len(n.elements) : ContainsScopedTrue(n.elements[i])
    [] n.kind = "CallExpression" ->
         \E i \in 1..Len(n.arguments) : ContainsScopedTrue(n.arguments[i])
    [] n.kind \in {"SpreadAssignment", "SpreadElement"} -> ContainsScopedTrue(n.operand)
    [] OTHER -> FALSE

\* The paths of the imports of a rewritten value.
RECURSIVE ImportPaths(_)
ImportPaths(n) ==
  CASE n.kind = "CallExpression" ->
         IF IsImportCall(n) THEN {n.arguments[1].text} ELSE {}
    [] n.kind = "ObjectLiteralExpression" ->
         UNION { ImportPaths(n.properties[i]) : i \in 1..Len(n.properties) }
    [] n.kind = "PropertyAssignment" -> ImportPaths(n.initializer)
    [] n.kind = "ArrayLiteralExpression" ->
         UNION { ImportPaths(n.elements[i]) : i \in 1..Len(n.elements) }
    [] n.kind \in {"SpreadAssignment", "SpreadElement"} -> ImportPaths(n.operand)
    [] OTHER -> {}

ContainsTokens(path, tokens) ==
  \E i \in 0..(Len(path) - Len(tokens)) : SubSeq(path, i + 1, i + Len(tokens)) = tokens

\* The part of a path before its first "?".
FilePart(path) ==
  IF \E i \in 1..Len(path) : path[i] = "?"
  THEN SubSeq(path, 1, (CHOOSE i \in 1..Len(path) :
                          path[i] = "?" /\ \A j \in 1..(i - 1) : path[j] # "?") - 1)
  ELSE path

HasScopeFields(path) == \E i \in 1..Len(path) : path[i] \in {"id", "scoped"}

CarriesScope(path, scopeId) ==
  ContainsTokens(path, <<"id", "=">> \o scopeId \o <<"&", "scoped", "=", "true">>)

\* An import of the same file as path, with the query of a style resource.
IsStyleImportOf(n, path) ==
  /\ IsImportCall(n)
  /\ FilePart(n.arguments[1].text) = FilePart(path)
  /\ ContainsTokens(n.arguments[1].text, <<"vue", "&", "type", "=", "style">>)
  /\ ContainsTokens(n.arguments[1].text, <<"index", "=", "0">>)

\* { scoped: false, style: require(<path with the style query>) }
IsUnscopedWrappingOf(n, path) ==
  /\ n.kind = "ObjectLiteralExpression"
  /\ Len(n.properties) = 2
  /\ n.properties[1] = Prop("scoped", FalseKeyword)
  /\ n.properties[2].kind = "PropertyAssignment"
  /\ n.properties[2].name = "style"
  /\ IsStyleImportOf(n.properties[2].initializer, path)
  /\ ~HasScopeFields(n.properties[2].initializer.arguments[1].text)

\* The styles value of a class and every element of it, each with what the
\* rewritten literal has in its place.
RECURSIVE StylePairs(_, _)
StylePairs(authored, emitted) ==
  {[authored |-> authored, emitted |-> emitted]}
    \cup IF /\ authored.kind = "ArrayLiteralExpression"
            /\ emitted.kind = "ArrayLiteralExpression"
            /\ Len(authored.elements) = Len(emitted.elements)
         THEN UNION { StylePairs(authored.elements[i], emitted.elements[i]) :
                        i \in 1..Len(authored.elements) }
         ELSE {}

StylePairsOf(e) ==
  IF hasProperty(e.parametersObject.properties, "styles")
  THEN StylePairs(authoredStyles(e), emittedStyles(e))
  ELSE {}

templatePathOf(e) == e.transformedProperties.templateSpreadAssignment.operand.arguments[1].text
templateTransformed(e) == e.transformedProperties.templateSpreadAssignment.kind # "undefined"
scopeInjected(e) == e.transformedProperties.scopeProperty.kind # "undefined"

Processed == { log[i] : i \in 1..Len(log) }

(***************************************************************************)
(* Scope identifiers.                                                      *)
(***************************************************************************)
\* An exported class with an application @Component({ ... }).
IsEligibleClass(c) ==
  /\ c.kind = "ClassDeclaration"
  /\ c.exportModifier
  /\ \E j \in 1..Len(c.decorators) :
       LET d == c.decorators[j].expression IN
       /\ d.kind = "CallExpression"
       /\ d.expression.kind = "Identifier"
       /\ d.expression.ident = "Component"
       /\ Len(d.arguments) = 1
       /\ d.arguments[1].kind = "ObjectLiteralExpression"

\* The places of the eligible classes of a file, in document order.
RECURSIVE EligibleFrom(_, _, _)
EligibleFrom(statements, i, prefix) ==
  IF i > Len(statements) THEN <<>>
  ELSE (IF statements[i].kind = "ModuleDeclaration"
        THEN EligibleFrom(statements[i].statements, 1, Append(prefix, i))
        ELSE IF IsEligibleClass(statements[i]) THEN <<Append(prefix, i)>>
        ELSE <<>>)
       \o EligibleFrom(statements, i + 1, prefix)

OrdinalText == <<"0", "1", "2", "3">>

FileHash ==
  IF production THEN hash(shortFilePath \o <<"\n">> \o source.text) ELSE hash(shortFilePath)

\* C1: the k-th eligible class of the file in document order, counted from
\* 0, gets the scope identifier <file hash>-k; the classes in between that
\* are skipped take no ordinal, and at the end every eligible class has one.
C1_ScopeOrdinals ==
  LET eligible == EligibleFrom(source.statements, 1, <<>>) IN
  /\ Len(log) <= Len(eligible)
  /\ pc = "done" => Len(log) = Len(eligible)
  /\ \A k \in 1..Len(log) :
       /\ log[k].path = eligible[k]
       /\ log[k].scopeId = <<FileHash, "-", OrdinalText[k]>>
       /\ log[k].parameters.scopeId = log[k].scopeId

\* Two classes were processed, with a skipped class between them.
C1_Witness ==
  /\ pc = "done"
  /\ Len(log) = 2
  /\ log[1].path = <<1>>
  /\ log[2].path = <<3>>
  /\ log[2].scopeId[3] = "1"

(***************************************************************************)
(* Scoping of styles and template.                                         *)
(***************************************************************************)
\* C2: when scoped: true is written nowhere in the styles value, no
\* _scopeId property is injected and no import path of the rewritten
\* literal has an id or a scoped field.
C2_UnscopedStaysUnscoped ==
  \A e \in Processed :
    ~ContainsScopedTrue(authoredStyles(e)) =>
      /\ ~scopeInjected(e)
      /\ ~hasProperty(e.properties, "_scopeId")
      /\ \A path \in ImportPaths(ObjectLiteral(e.properties)) : ~HasScopeFields(path)

\* A class without scoped: true whose styles and template were rewritten.
C2_Witness ==
  \E e \in Processed :
    /\ authoredStyles(e).kind = "ArrayLiteralExpression"
    /\ ~ContainsScopedTrue(authoredStyles(e))
    /\ templateTransformed(e)
    /\ Cardinality(ImportPaths(ObjectLiteral(e.properties))) >= 2

\* C3 as stated: scoped: true anywhere in the styles value gives the
\* template import id=<scopeId>&scoped=true.
C3_ScopedAnywhere ==
  \A e \in Processed :
    (ContainsScopedTrue(authoredStyles(e)) /\ templateTransformed(e)) =>
      CarriesScope(templatePathOf(e), e.scopeId)

\* C3, amended: when the styles value is, or has as an element of its
\* sequences, a descriptor with scoped: true whose style is a path or
\* require(<string literal>), the template import carries
\* id=<scopeId>&scoped=true with the scope identifier of the class.
C3_ScopingDescriptorScopesTemplate ==
  \A e \in Processed :
    (ScopingVerdict(authoredStyles(e)) /\ templateTransformed(e)) =>
      CarriesScope(templatePathOf(e), <<FileHash, "-", OrdinalText[e.ordinal + 1]>>)

\* A scoping descriptor in a sequence, after an unscoped style, and a
\* transformed template.
C3_Witness ==
  \E e \in Processed :
    /\ authoredStyles(e).kind = "ArrayLiteralExpression"
    /\ Len(authoredStyles(e).elements) = 2
    /\ ~ScopingVerdict(authoredStyles(e).elements[1])
    /\ IsScopingDescriptor(authoredStyles(e).elements[2])
    /\ templateTransformed(e)

(***************************************************************************)
(* The template.                                                           *)
(***************************************************************************)
hasSpread(properties) ==
  \E i \in 1..Len(properties) : properties[i].kind = "SpreadAssignment"

\* C4: the template is transformed exactly when it is require(<one string
\* literal>): then the literal gets _compiled: true and a spread of a
\* require of the same file with the template query; any other template
\* stays as written and the literal gets neither the flag nor the spread.
\* (What becomes of the authored template properties is C22.)
C4_TemplateOnlyImportCall ==
  \A e \in Processed :
    LET template == authoredTemplate(e) IN
    IF template.kind # "none" /\ IsImportCall(template)
    THEN /\ propertyOf(e.properties, "_compiled") = TrueKeyword
         /\ \E i \in 1..Len(e.properties) :
              /\ e.properties[i].kind = "SpreadAssignment"
              /\ IsImportCall(e.properties[i].operand)
              /\ FilePart(e.properties[i].operand.arguments[1].text)
                   = FilePart(template.arguments[1].text)
              /\ ContainsTokens(e.properties[i].operand.arguments[1].text,
                                <<"vue", "&", "type", "=", "template">>)
    ELSE /\ propertyOf(e.properties, "template") = template
         /\ ~hasProperty(e.properties, "_compiled")
         /\ ~hasSpread(e.properties)
         /\ ~templateTransformed(e)

\* A template that is a call of require with two string arguments.
C4_Witness ==
  \E e \in Processed :
    /\ authoredTemplate(e).kind = "CallExpression"
    /\ authoredTemplate(e).expression = Identifier("require")
    /\ Len(authoredTemplate(e).arguments) = 2
    /\ propertyOf(e.properties, "template") = authoredTemplate(e)

(***************************************************************************)
(* The rewriting of the styles value.                                      *)
(***************************************************************************)
\* C5 as stated: every string, as the styles value or as an element of a
\* sequence, becomes { scoped: false, style: require(<path with the style
\* query>) }, the empty string too.
C5_StringsAreWrapped ==
  \A e \in Processed :
    \A pr \in StylePairsOf(e) :
      pr.authored.kind = "StringLiteral" =>
        IsUnscopedWrappingOf(pr.emitted, pr.authored.text)

\* C6 as stated: require(<string literal>), as the styles value or as an
\* element, gets the same wrapping as a string.
C6_ImportCallsAreWrapped ==
  \A e \in Processed :
    \A pr \in StylePairsOf(e) :
      IsImportCall(pr.authored) =>
        IsUnscopedWrappingOf(pr.emitted, pr.authored.arguments[1].text)

\* C6, amended: require(<string literal>), as the styles value or as an
\* element, becomes the bare call require(<path with the style query>)
\* without id and scoped, not wrapped in a descriptor; as the style of a
\* descriptor it is replaced in place, the descriptor keeps its scoped flag
\* and the path has id and scoped exactly when the flag is true.
C6_ImportCallsGetStyleQuery ==
  \A e \in Processed :
    \A pr \in StylePairsOf(e) :
      /\ IsImportCall(pr.authored) =>
           /\ IsStyleImportOf(pr.emitted, pr.authored.arguments[1].text)
           /\ ~HasScopeFields(pr.emitted.arguments[1].text)
      /\ (IsDescriptorLiteral(pr.authored)
            /\ IsImportCall(propertyOf(pr.authored.properties, "style"))) =>
           LET scoped == propertyOf(pr.authored.properties, "scoped")
               path == propertyOf(pr.authored.properties, "style").arguments[1].text
           IN /\ pr.emitted.kind = "ObjectLiteralExpression"
              /\ propertyOf(pr.emitted.properties, "scoped") = scoped
              /\ LET style == propertyOf(pr.emitted.properties, "style") IN
                 /\ IsStyleImportOf(style, path)
                 /\ CarriesScope(style.arguments[1].text, e.scopeId)
                      <=> (scoped.kind = "TrueKeyword")
                 /\ HasScopeFields(style.arguments[1].text)
                      <=> (scoped.kind = "TrueKeyword")

\* A sequence of a bare import and of a scoped descriptor of an import.
C6_Witness ==
  \E e \in Processed :
    /\ authoredStyles(e).kind = "ArrayLiteralExpression"
    /\ Len(authoredStyles(e).elements) = 2
    /\ IsImportCall(authoredStyles(e).elements[1])
    /\ authoredStyles(e).elements[2] = Descriptor(TRUE, RequireCall(CssPath))
    /\ IsImportCall(emittedStyles(e).elements[1])

\* A descriptor with scoped: true whose style is neither a path nor an
\* import.
IsOpaqueScopedDescriptor(n) ==
  /\ IsDescriptorLiteral(n)
  /\ propertyOf(n.properties, "scoped").kind = "TrueKeyword"
  /\ ~IsScopingDescriptor(n)

\* C7 as stated: a descriptor { scoped: true, style: E } whose E is neither
\* a string nor require(<string literal>) is emitted as { scoped: false,
\* style: E } with E unchanged, and without another scoped style no
\* _scopeId is injected and the template import has no id and no scoped.
C7_OpaqueStyleFallsBack ==
  \A e \in Processed :
    \A pr \in StylePairsOf(e) :
      (IsOpaqueScopedDescriptor(pr.authored) /\ Len(pr.authored.properties) = 2) =>
        /\ pr.emitted = ObjectLiteral(<<Prop("scoped", FalseKeyword),
                                        Prop("style", propertyOf(pr.authored.properties, "style"))>>)
        /\ ~ScopingVerdict(authoredStyles(e)) =>
             /\ ~scopeInjected(e)
             /\ templateTransformed(e) => ~HasScopeFields(templatePathOf(e))

\* What is emitted for one element of a sequence, by the kind of element.
ElementCorresponds(authored, emitted) ==
  IF authored.kind = "StringLiteral" THEN IsUnscopedWrappingOf(emitted, authored.text)
  ELSE IF IsImportCall(authored) THEN IsStyleImportOf(emitted, authored.arguments[1].text)
  ELSE IF authored.kind = "ArrayLiteralExpression"
  THEN emitted.kind = "ArrayLiteralExpression"
         /\ Len(emitted.elements) = Len(authored.elements)
  ELSE IF authored.kind = "ObjectLiteralExpression"
  THEN emitted.kind = "ObjectLiteralExpression"
         /\ IsDescriptorLiteral(emitted) = IsDescriptorLiteral(authored)
  ELSE emitted = authored

\* C8: a sequence of styles becomes a sequence of the same length, the
\* element at each place being the rewriting of the element written at that
\* place, and the scope identifier is injected exactly when some element,
\* of the sequence or of a sequence nested in it, gives a scoped verdict.
C8_SequencesElementwise ==
  \A e \in Processed :
    authoredStyles(e).kind = "ArrayLiteralExpression" =>
      /\ scopeInjected(e) <=> ScopingVerdict(authoredStyles(e))
      /\ \A pr \in { [authored |-> authoredStyles(e), emitted |-> emittedStyles(e)] }
                     \cup StylePairsOf(e) :
           pr.authored.kind = "ArrayLiteralExpression" =>
             /\ pr.emitted.kind = "ArrayLiteralExpression"
             /\ Len(pr.emitted.elements) = Len(pr.authored.elements)
             /\ \A i \in 1..Len(pr.authored.elements) :
                  ElementCorresponds(pr.authored.elements[i], pr.emitted.elements[i])

\* A sequence whose first element is unscoped and whose second is a nested
\* sequence with a scoped element.
C8_Witness ==
  \E e \in Processed :
    /\ authoredStyles(e).kind = "ArrayLiteralExpression"
    /\ Len(authoredStyles(e).elements) = 2
    /\ ~ScopingVerdict(authoredStyles(e).elements[1])
    /\ authoredStyles(e).elements[2].kind = "ArrayLiteralExpression"
    /\ ScopingVerdict(authoredStyles(e).elements[2])
    /\ emittedStyles(e).elements[2].kind = "ArrayLiteralExpression"
    /\ scopeInjected(e)

\* Neither a string, nor an import, nor a descriptor, nor a sequence.
IsOtherValue(n) ==
  /\ n.kind # "StringLiteral"
  /\ n.kind # "ArrayLiteralExpression"
  /\ ~IsImportCall(n)
  /\ ~IsDescriptorLiteral(n)

\* C9 as stated: a styles value or element that is neither a string, nor an
\* import, nor a descriptor, nor a sequence is emitted unchanged, with all
\* its entries in their order, and gives no scoped verdict.
C9_OtherValuesUnchanged ==
  \A e \in Processed :
    /\ IsOtherValue(authoredStyles(e)) => ~scopeInjected(e)
    /\ \A pr \in StylePairsOf(e) :
         IsOtherValue(pr.authored) => pr.emitted = pr.authored

(***************************************************************************)
(* addParametersToExistingQuery on its own: a path, a first set of         *)
(* parameters and a second one.                                            *)
(***************************************************************************)
ParameterKeys == { <<"vue">>, <<"lang">>, <<"index">> }
ParameterValues == { JSNull, JSUndefined, JSString(<<"css">>), JSNumber(0) }

\* Objects of up to n parameters with distinct keys.
distinctKeys(obj) == \A i, j \in 1..Len(obj) : obj[i].key = obj[j].key => i = j

ParameterObjects(n) ==
  { obj \in SequencesOf([key : ParameterKeys, val : ParameterValues], n) : distinctKeys(obj) }

CodecPaths == { CssPath, CssPathWithQuery }

InitQuery ==
  /\ source = [hasMarker |-> FALSE, text |-> <<"content1">>, statements |-> <<>>]
  /\ production = FALSE
  /\ target = "web"
  /\ hotReload = TRUE
  /\ InitState
  /\ codec \in { [NoCodec EXCEPT !.path = p, !.first = q1, !.second = q2] :
                   p \in CodecPaths,
                   q1 \in ParameterObjects(MaxParameters),
                   q2 \in ParameterObjects(1) }
  /\ runtime = NoRuntime

\* addParametersToExistingQuery(path, first), and with both sets merged
EncodeFirst ==
  /\ codec.pc = "idle"
  /\ codec' = [codec EXCEPT
                 !.pc = "once",
                 !.once = addParametersToExistingQuery(codec.path, codec.first),
                 !.merged = addParametersToExistingQuery(
                              codec.path, objectAssign(codec.first, codec.second))]
  /\ UNCHANGED <<inputs, pc, root, cursor, foundComponents, componentsDescriptors, log, result, runtime>>

\* addParametersToExistingQuery(<the path with the first set>, second)
EncodeSecond ==
  /\ codec.pc = "once"
  /\ codec' = [codec EXCEPT
                 !.pc = "twice",
                 !.twice = addParametersToExistingQuery(codec.once, codec.second)]
  /\ UNCHANGED <<inputs, pc, root, cursor, foundComponents, componentsDescriptors, log, result, runtime>>

NextQuery == EncodeFirst \/ EncodeSecond

SpecQuery == InitQuery /\ [][NextQuery]_vars

\* C10 as stated: adding a first set of parameters and then a second one
\* gives the path that adding the merged set gives.
C10_EncodingComposes ==
  codec.pc = "twice" => codec.twice = codec.merged

(***************************************************************************)
(* The queries of the generated import paths.                              *)
(***************************************************************************)
\* The text of a path after its first "?".
QueryText(path) ==
  IF FilePart(path) = path THEN <<>>
  ELSE SubSeq(path, Len(FilePart(path)) + 2, Len(path))

\* The parts of a query: its runs between two "&".
QueryParts(q) ==
  { SubSeq(q, p[1], p[2]) :
      p \in { r \in (1..Len(q)) \X (1..Len(q)) :
                /\ r[1] <= r[2]
                /\ r[1] = 1 \/ q[r[1] - 1] = "&"
                /\ r[2] = Len(q) \/ q[r[2] + 1] = "&"
                /\ \A k \in r[1]..r[2] : q[k] # "&" } }

\* A part is a key, and a value after its first "=".
PartKey(part) ==
  IF \E i \in 1..Len(part) : part[i] = "="
  THEN SubSeq(part, 1, (CHOOSE i \in 1..Len(part) :
                          part[i] = "=" /\ \A j \in 1..(i - 1) : part[j] # "=") - 1)
  ELSE part

PartValue(part) ==
  IF PartKey(part) = part THEN <<>>
  ELSE SubSeq(part, Len(PartKey(part)) + 2, Len(part))

Unescaped(text) ==
  [i \in 1..Len(text) |->
     CASE text[i] = "%3F" -> "?" [] text[i] = "%3D" -> "=" [] text[i] = "%26" -> "&"
       [] text[i] = "%2F" -> "/" [] OTHER -> text[i]]

\* The parameters a path carries: key and value, unescaped.
ParametersOf(path) ==
  { [key |-> Unescaped(PartKey(part)), val |-> Unescaped(PartValue(part))] :
      part \in QueryParts(QueryText(path)) }

GeneratedKeys == { <<"vue">>, <<"type">>, <<"lang">>, <<"index">>, <<"id">>, <<"scoped">> }

IsPathNode(n) == n.kind = "StringLiteral" \/ IsImportCall(n)
WrittenPath(n) == IF n.kind = "StringLiteral" THEN n.text ELSE n.arguments[1].text

\* The style paths of a class as written, each with the path generated for
\* it: a string and its wrapping, an import and its rewriting, a
\* descriptor of either and the descriptor emitted for it.
StylePathPairs(e) ==
  { [written |-> WrittenPath(pr.authored), generated |-> pr.emitted.arguments[1].text,
     resource |-> "style", scoped |-> FALSE] :
      pr \in { q \in StylePairsOf(e) : IsImportCall(q.authored) /\ IsImportCall(q.emitted) } }
  \cup
  { [written |-> pr.authored.text,
     generated |-> propertyOf(pr.emitted.properties, "style").arguments[1].text,
     resource |-> "style", scoped |-> FALSE] :
      pr \in { q \in StylePairsOf(e) :
                 /\ q.authored.kind = "StringLiteral"
                 /\ q.emitted.kind = "ObjectLiteralExpression"
                 /\ IsImportCall(propertyOf(q.emitted.properties, "style")) } }
  \cup
  { [written |-> WrittenPath(propertyOf(pr.authored.properties, "style")),
     generated |-> propertyOf(pr.emitted.properties, "style").arguments[1].text,
     resource |-> "style",
     scoped |-> (propertyOf(pr.authored.properties, "scoped").kind = "TrueKeyword")] :
      pr \in { q \in StylePairsOf(e) :
                 /\ IsDescriptorLiteral(q.authored)
                 /\ IsPathNode(propertyOf(q.authored.properties, "style"))
                 /\ q.emitted.kind = "ObjectLiteralExpression"
                 /\ IsImportCall(propertyOf(q.emitted.properties, "style")) } }

\* The template path of a class as written, with the path generated for it.
TemplatePathPairs(e) ==
  IF IsImportCall(authoredTemplate(e)) /\ templateTransformed(e)
  THEN { [written |-> authoredTemplate(e).arguments[1].text, generated |-> templatePathOf(e),
          resource |-> "template", scoped |-> ScopingVerdict(authoredStyles(e))] }
  ELSE {}

PathPairs(e) == StylePathPairs(e) \cup TemplatePathPairs(e)

\* C11 as stated: every parameter of the query a path was written with
\* (the text after its first "?") is in the generated path with its value,
\* unless a generated parameter has its key.
C11_ExistingParametersKept ==
  \A e \in Processed :
    \A pp \in PathPairs(e) :
      \A w \in ParametersOf(pp.written) :
        w.key \notin GeneratedKeys => w \in ParametersOf(pp.generated)

\* The extension of the file part of a path: the text after the last "."
\* of its last segment, nothing when the segment has none or starts with it.
FileExtension(path) ==
  LET file == FilePart(path)
      dots == { i \in 2..Len(file) :
                  /\ file[i] = "."
                  /\ file[i - 1] # "/"
                  /\ \A j \in (i + 1)..Len(file) : file[j] \notin {".", "/"} }
  IN IF dots = {} THEN <<>>
     ELSE SubSeq(file, (CHOOSE i \in dots : TRUE) + 1, Len(file))

HasQuery(path) == FilePart(path) # path

\* What follows the written path in the path generated for a resource.
GeneratedSuffix(path, resource) ==
  <<"&", "vue", "&", "type", "=", resource>>
    \o (IF FileExtension(path) = <<>> THEN <<>>
        ELSE <<"&", "lang", "=">> \o FileExtension(path))

\* C12 as stated: a template path written with a query is generated as
\* <written path>&vue&type=template&lang=<extension of the file part>, and
\* the re-render call of the hot reload code names that same path.
C12_TemplateQueryKeepsExtension ==
  \A e \in Processed :
    \A pp \in TemplatePathPairs(e) :
      HasQuery(pp.written) =>
        LET expected == pp.written \o GeneratedSuffix(pp.written, "template") IN
        /\ Len(pp.generated) >= Len(expected)
        /\ SubSeq(pp.generated, 1, Len(expected)) = expected
        /\ Len(pp.generated) > Len(expected) => pp.generated[Len(expected) + 1] = "&"
        /\ (pc = "done" /\ result.glue.present) =>
             \E i \in 1..Len(result.glue.rerender) :
               result.glue.rerender[i].templateFilePath = pp.generated

ScopeIdOf(e) == <<FileHash, "-", OrdinalText[e.ordinal + 1]>>

ScopeSuffix(e, scoped) ==
  IF scoped THEN <<"&", "id", "=">> \o ScopeIdOf(e) \o <<"&", "scoped", "=", "true">>
  ELSE <<>>

IndexSuffix(resource) ==
  IF resource = "style" THEN <<"&", "index", "=", "0">> ELSE <<>>

\* <path>?vue&type=<resource>[&lang=<ext>]
GeneratedStem(pp) == pp.written \o <<"?">> \o Tail(GeneratedSuffix(pp.written, pp.resource))

\* C13 as stated: the path generated for a path written without a query is
\* <path>?vue&type=style&lang=<ext>&index=0 for a style and
\* <path>?vue&type=template&lang=<ext> for a template, each followed by
\* &id=<scopeId>&scoped=true exactly when it is scoped.
C13_ScopeFieldsLast ==
  \A e \in Processed :
    \A pp \in PathPairs(e) :
      ~HasQuery(pp.written) =>
        pp.generated = GeneratedStem(pp) \o IndexSuffix(pp.resource) \o ScopeSuffix(e, pp.scoped)

\* C13, amended: the same, with index=0 after the scope fields: a scoped
\* style is <path>?vue&type=style&lang=<ext>&id=<scopeId>&scoped=true&index=0.
C13_IndexLast ==
  \A e \in Processed :
    \A pp \in PathPairs(e) :
      ~HasQuery(pp.written) =>
        pp.generated = GeneratedStem(pp) \o ScopeSuffix(e, pp.scoped) \o IndexSuffix(pp.resource)

\* A class with a scoped style path and a scoped template, both generated.
C13_Witness ==
  \E e \in Processed :
    /\ \E pp \in StylePathPairs(e) :
         pp.scoped /\ ~HasQuery(pp.written) /\ ContainsTokens(pp.generated, <<"index", "=", "0">>)
    /\ \E pp \in TemplatePathPairs(e) : pp.scoped /\ ~HasQuery(pp.written)

(***************************************************************************)
(* The invocation as a whole.                                              *)
(***************************************************************************)
\* C14: when the text has no occurrence of @Component, the callback gets
\* the input as it came, without error: nothing was parsed, no class was
\* processed and no hot reload code was appended, whatever the options.
C14_NoMarkerNoChange ==
  (pc = "done" /\ ~source.hasMarker) =>
    /\ result.called
    /\ result.error = JSNull
    /\ result.unchanged
    /\ result.statements = source.statements
    /\ ~result.glue.present
    /\ root = <<>>
    /\ log = <<>>

\* A file of classes without the marker, in a build that appends the hot
\* reload code to every file it rewrites.
C14_Witness ==
  /\ pc = "done"
  /\ ~source.hasMarker
  /\ Len(source.statements) = 2
  /\ ~production /\ target = "web" /\ hotReload
  /\ result.called

\* The places of a file: its statements and those of its namespaces.
PlacesOf(statements) ==
  { <<i>> : i \in 1..Len(statements) }
    \cup UNION { { <<i, j>> : j \in 1..Len(statements[i].statements) } :
                   i \in { k \in 1..Len(statements) :
                             statements[k].kind = "ModuleDeclaration" } }

NodeAt(statements, place) ==
  IF Len(place) = 1 THEN statements[place[1]]
  ELSE statements[place[1]].statements[place[2]]

\* Some decorator of the class is @Component(<one object literal>).
HasLiteralArgument(c) ==
  \E j \in 1..Len(c.decorators) :
    LET d == c.decorators[j].expression IN
    /\ d.kind = "CallExpression"
    /\ d.expression.kind = "Identifier"
    /\ d.expression.ident = "Component"
    /\ Len(d.arguments) = 1
    /\ d.arguments[1].kind = "ObjectLiteralExpression"

\* C15 as stated: a class without the object-literal argument of the
\* decorator is in the output as it is in the input, an anonymous class
\* too; only the other classes of the file are rewritten.
C15_SkippedClassesUntouched ==
  (pc = "done" /\ result.called) =>
    /\ Len(result.statements) = Len(source.statements)
    /\ \A place \in PlacesOf(source.statements) :
         LET c == NodeAt(source.statements, place) IN
         (c.kind = "ClassDeclaration" /\ ~HasLiteralArgument(c)) =>
           NodeAt(result.statements, place) = c

(***************************************************************************)
(* The hot reload code.                                                    *)
(***************************************************************************)
\* C16 as stated: the hot reload code is appended to the output exactly
\* when hotReload is on, the target is not node and the build is not a
\* production build.
C16_GlueExactlyWhenEnabled ==
  pc = "done" =>
    (result.glue.present <=> (hotReload /\ target # "node" /\ ~production))

\* C16, amended: for a text with the marker @Component the hot reload code
\* is appended exactly when hotReload is on, the target is not node and
\* the build is not a production build; for a text without the marker it
\* is never appended.
C16_GlueExactlyWhenEnabledAndMarked ==
  pc = "done" =>
    (result.glue.present <=>
       (source.hasMarker /\ hotReload /\ target # "node" /\ ~production))

\* A rewritten file with its hot reload code.
C16_Witness ==
  /\ pc = "done"
  /\ result.glue.present
  /\ Len(log) = 2
  /\ hotReload /\ target = "web" /\ ~production

\* The calls of one method that are keyed by the scope identifier of a
\* processed class and name that class.
CallsFor(calls, e) ==
  { i \in 1..Len(calls) :
      calls[i].scopeId = ScopeIdOf(e) /\ calls[i].className = e.className }

\* C17 as stated: the hot reload code has, for each processed class, exactly
\* one createRecord call and one reload call with the scope identifier and
\* the name of that class, and no other call.
C17_OneCallPerClass ==
  (pc = "done" /\ result.glue.present) =>
    /\ Len(result.glue.createRecord) = Len(log)
    /\ Len(result.glue.reload) = Len(log)
    /\ \A k \in 1..Len(log) :
         /\ Cardinality(CallsFor(result.glue.createRecord, log[k])) = 1
         /\ Cardinality(CallsFor(result.glue.reload, log[k])) = 1

(***************************************************************************)
(* The module identifier of server-side builds.                            *)
(***************************************************************************)
\* The places of the properties of a literal that are named _moduleId.
ModuleIdPlaces(properties) ==
  { i \in 1..Len(properties) :
      properties[i].kind = "PropertyAssignment" /\ properties[i].name = "_moduleId" }

\* The text <hash of the request>-<ordinal of the scope identifier>.
ModuleIdText(e) == <<hash(request), "-", ScopeIdOf(e)[3]>>

\* C18 as stated: the rewritten literal of a processed class has a _moduleId
\* property exactly when the target is node; it is then the only property of
\* that name and its value is the hash of the request, a dash and the
\* ordinal of the scope identifier of the class.
C18_ModuleIdOnServerOnly ==
  \A e \in Processed :
    /\ (ModuleIdPlaces(e.properties) # {}) <=> (target = "node")
    /\ target = "node" =>
         \A i \in ModuleIdPlaces(e.properties) :
           e.properties[i].initializer = StringLiteral(ModuleIdText(e))

(***************************************************************************)
(* The input of the file scope hash.                                       *)
(***************************************************************************)
\* The first part of the scope identifier of a processed class.
ScopeHashOf(e) == e.scopeId[1]

\* C19: outside production the scope identifiers of the classes start with
\* the hash of the short file path alone, whatever the content, so the class
\* at an ordinal has the same identifier for every content; in production
\* they start with the hash of the path, a line break and the content, which
\* is not the hash of the path with any other content.
C19_ScopeHashInput ==
  \A k \in 1..Len(log) :
    /\ log[k].scopeId = <<ScopeHashOf(log[k]), "-", OrdinalText[k]>>
    /\ ~production => ScopeHashOf(log[k]) = hash(shortFilePath)
    /\ production =>
         /\ ScopeHashOf(log[k]) = hash(shortFilePath \o <<"\n">> \o source.text)
         /\ \A t \in Contents \ {source.text} :
              ScopeHashOf(log[k]) # hash(shortFilePath \o <<"\n">> \o t)

C19_Witness ==
  /\ pc = "done"
  /\ ~production
  /\ source.text = <<"content2">>
  /\ Len(log) >= 2

(***************************************************************************)
(* Faults.  The default export has no try statement: an exception raised   *)
(* by a call made during the rewrite leaves the function, and the          *)
(* statement that calls the callback is not reached.                       *)
(***************************************************************************)
\* A slip: the exception is caught and handed to the callback.
uncaughtForwarded(res) == [res EXCEPT !.called = TRUE, !.error = [kind |-> "Error"]]

\* What an exception leaves of the result: nothing has been called.
uncaught(res) == res

\* An exception while the tree is being rewritten.
Fault ==
  /\ pc = "traverse"
  /\ result' = uncaught(result)
  /\ pc' = "thrown"
  /\ UNCHANGED <<inputs, root, cursor, foundComponents, componentsDescriptors, log, codec, runtime>>

NextFault == FastPath \/ Begin \/ Traverse \/ Finish \/ Fault

SpecFault == Init /\ [][NextFault]_vars

\* The text handed to the callback is the whole text: the input itself, or
\* the tree after every statement was visited and every eligible class
\* rewritten, with the hot reload code when it is due.
CompleteText ==
  \/ result.unchanged /\ result.statements = source.statements /\ ~result.glue.present
  \/ /\ ~result.unchanged
     /\ cursor > Len(root)
     /\ result.statements = root
     /\ Len(result.statements) = Len(source.statements)
     /\ Len(log) = Len(EligibleFrom(source.statements, 1, <<>>))
     /\ result.glue.present =>
          Len(result.glue.createRecord) = Len(componentsDescriptors)

\* C20 as stated: an invocation that ends, by a fault or not, has called the
\* callback; after a fault the callback got an error, and a callback gets
\* either an error or the complete text, not both.
C20_FaultsReachCallback ==
  /\ pc \in {"done", "thrown"} => result.called
  /\ pc = "thrown" => result.error # JSNull
  /\ result.called => (result.error # JSNull) # CompleteText

\* C20, amended: a fault leaves the invocation without a call of the
\* callback; a callback is called only at the end of an invocation without
\* fault, with null as the error and the complete text.
C20_FaultsAreThrown ==
  /\ pc = "thrown" => ~result.called
  /\ pc = "done" => result.called
  /\ result.called => (pc = "done" /\ result.error = JSNull /\ CompleteText)

C20_Witness ==
  /\ pc = "thrown"
  /\ ~result.called
  /\ Len(log) >= 1
  /\ cursor <= Len(root)

(***************************************************************************)
(* The runtime decorator as a state machine: one application, and then the *)
(* calls Vue makes of what the options hold.                               *)
(***************************************************************************)
InitRuntime ==
  /\ source = [hasMarker |-> FALSE, text |-> <<"content1">>, statements |-> <<>>]
  /\ production = FALSE
  /\ target = "node"
  /\ hotReload = TRUE
  /\ InitState
  /\ codec = NoCodec
  /\ runtime \in { [NoRuntime EXCEPT !.pc = "idle", !.options = o, !.componentClass = c] :
                     o \in RuntimeOptions, c \in RuntimeClasses }

loaderVars == <<inputs, pc, root, cursor, foundComponents, componentsDescriptors,
                log, result, codec>>

\* Component(options)(componentClass), up to the call of componentFactory.
Decorate ==
  /\ runtime.pc = "idle"
  /\ runtime' = [runtime EXCEPT
                   !.pc = "decorated",
                   !.passed = decoratedOptions(runtime.options, runtime.componentClass)]
  /\ UNCHANGED loaderVars

\* Vue calls the beforeCreate hooks of the options, in their order.
CallBeforeCreate ==
  /\ runtime.pc = "decorated"
  /\ runtime.passed.beforeCreate.kind # "undefined"
  /\ runtime' = [runtime EXCEPT
                   !.pc = "created",
                   !.calls = IF runtime.passed.beforeCreate.kind = "array"
                             THEN callsOfAll(runtime.passed.beforeCreate.elements, 1)
                             ELSE callsOf(runtime.passed.beforeCreate)]
  /\ UNCHANGED loaderVars

\* The server renderer calls _ssrRegister.
CallSsrRegister ==
  /\ runtime.pc = "decorated"
  /\ runtime.passed.ssrRegister.kind = "function"
  /\ runtime' = [runtime EXCEPT
                   !.pc = "registered",
                   !.calls = callsOf(runtime.passed.ssrRegister)]
  /\ UNCHANGED loaderVars

NextRuntime == Decorate \/ CallBeforeCreate \/ CallSsrRegister

SpecRuntime == InitRuntime /\ [][NextRuntime]_vars

\* The styles the options declare, in the order of their declaration, each
\* with what it stands for: the value of `style` for a descriptor.
DeclaredStyles(options) ==
  LET declared == IF options.styles.kind = "array" THEN options.styles.elements
                  ELSE IF options.styles.kind = "undefined" THEN <<>>
                  ELSE <<options.styles>>
  IN [i \in 1..Len(declared) |->
        IF declared[i].kind = "descriptor" THEN declared[i].style ELSE declared[i]]

ExportsInject(style) == style.kind = "module" /\ style.hasInject

\* The names of the declared styles that export __inject__.
ExportingNames(options) ==
  LET exporting == SelectSeq(DeclaredStyles(options), ExportsInject)
  IN [i \in 1..Len(exporting) |-> exporting[i].name]

\* The calls of the hooks the options had before, in their order.
ExistingCalls(options) ==
  CASE options.beforeCreate.kind = "undefined" -> <<>>
    [] options.beforeCreate.kind = "function" -> <<options.beforeCreate.name>>
    [] OTHER -> [i \in 1..Len(options.beforeCreate.elements) |->
                   options.beforeCreate.elements[i].name]

OwnCalls(componentClass) ==
  IF componentClass.beforeCreate = "method" THEN <<"own">> ELSE <<>>

\* C21: without _moduleId, or without a style that exports __inject__, the
\* options reach componentFactory as they were; otherwise _ssrRegister and
\* beforeCreate hold one hook, in beforeCreate after the hooks the options
\* had and before the method of the class, and a call of the hook calls
\* __inject__ of every exporting style in the order of declaration.
C21_StyleInjection ==
  runtime.pc \in {"decorated", "created", "registered"} =>
    IF runtime.options.moduleId /\ ExportingNames(runtime.options) # <<>>
    THEN /\ runtime.passed.ssrRegister.kind = "function"
         /\ runtime.passed.beforeCreate.kind = "array"
         /\ \E i \in 1..Len(runtime.passed.beforeCreate.elements) :
              /\ runtime.passed.beforeCreate.elements[i] = runtime.passed.ssrRegister
              /\ i = Len(ExistingCalls(runtime.options)) + 1
              /\ Len(runtime.passed.beforeCreate.elements)
                   = i + Len(OwnCalls(runtime.componentClass))
         /\ runtime.pc = "registered" =>
              runtime.calls = ExportingNames(runtime.options)
         /\ runtime.pc = "created" =>
              runtime.calls = ExistingCalls(runtime.options)
                                \o ExportingNames(runtime.options)
                                \o OwnCalls(runtime.componentClass)
    ELSE /\ runtime.passed = runtime.options
         /\ runtime.pc # "registered"

C21_Witness ==
  /\ runtime.pc = "created"
  /\ runtime.options.moduleId
  /\ Len(ExportingNames(runtime.options)) = 2
  /\ runtime.options.styles.kind = "array"
  /\ \E i \in 1..Len(runtime.options.styles.elements) :
       runtime.options.styles.elements[i].kind = "descriptor"
  /\ Len(ExistingCalls(runtime.options)) = 2
  /\ runtime.componentClass.beforeCreate = "method"

(***************************************************************************)
(* The literal after the rewrite of a class.                               *)
(***************************************************************************)
\* The names of the slots for which the rewrite of a class produced a
\* replacement.
ProducedSlots(e) ==
  (IF e.transformedProperties.scopeProperty.kind # "undefined" THEN {"_scopeId"} ELSE {})
    \cup (IF e.transformedProperties.compiledProperty.kind # "undefined"
          THEN {"_compiled"} ELSE {})
    \cup (IF e.transformedProperties.templateSpreadAssignment.kind # "undefined"
          THEN {"template"} ELSE {})
    \cup (IF e.transformedProperties.stylesProperty.kind # "undefined"
          THEN {"styles"} ELSE {})

\* The replacement produced for a slot.
ReplacementOf(e, name) ==
  CASE name = "_scopeId" -> e.transformedProperties.scopeProperty
    [] name = "_compiled" -> e.transformedProperties.compiledProperty
    [] name = "template" -> e.transformedProperties.templateSpreadAssignment
    [] name = "styles" -> e.transformedProperties.stylesProperty

IsNamed(p, name) == p.kind = "PropertyAssignment" /\ p.name = name

GeneratedNames == {"_scopeId", "_compiled", "template", "styles", "_moduleId", "__file"}

IsOtherProperty(p) == p.kind = "PropertyAssignment" /\ p.name \notin GeneratedNames

\* C22 as stated: in the rewritten literal a property with the name of a
\* slot that got a replacement is that replacement and nothing the author
\* wrote, the replacement is in the literal once, and the properties with
\* other names are those of the authored literal in their order.
C22_SlotsSuperseded ==
  \A e \in Processed :
    /\ \A name \in ProducedSlots(e) :
         /\ \A i \in 1..Len(e.properties) :
              IsNamed(e.properties[i], name) => e.properties[i] = ReplacementOf(e, name)
         /\ Cardinality({ i \in 1..Len(e.properties) :
                            e.properties[i] = ReplacementOf(e, name) }) = 1
    /\ SelectSeq(e.properties, IsOtherProperty)
         = SelectSeq(e.parametersObject.properties, IsOtherProperty)

\* The fragments produced for a class, in the order the claim gives.
FragmentsOf(e) ==
  (IF "_scopeId" \in ProducedSlots(e) THEN <<ReplacementOf(e, "_scopeId")>> ELSE <<>>)
    \o (IF "_compiled" \in ProducedSlots(e) THEN <<ReplacementOf(e, "_compiled")>> ELSE <<>>)
    \o (IF "template" \in ProducedSlots(e) THEN <<ReplacementOf(e, "template")>> ELSE <<>>)
    \o (IF "styles" \in ProducedSlots(e) THEN <<ReplacementOf(e, "styles")>> ELSE <<>>)
    \o (IF target = "node"
        THEN <<Prop("_moduleId", StringLiteral(ModuleIdText(e)))>> ELSE <<>>)
    \o (IF ~production
        THEN <<Prop("__file", StringLiteral(shortFilePath))>> ELSE <<>>)

\* The elements of a sequence at the places of a set, in their order.
RECURSIVE Restricted(_, _, _)
Restricted(seq, places, i) ==
  IF i > Len(seq) THEN <<>>
  ELSE (IF i \in places THEN <<seq[i]>> ELSE <<>>) \o Restricted(seq, places, i + 1)

IsSubsequence(part, whole) ==
  \E places \in SUBSET (1..Len(whole)) : part = Restricted(whole, places, 1)

\* C23: the rewritten literal of a processed class is a selection of the
\* authored properties in their order, followed by the fragments _scopeId,
\* _compiled, template spread, styles, _moduleId (target node) and __file
\* (outside production), each when it was produced, in this order.
C23_FragmentsAppendedInOrder ==
  \A e \in Processed :
    LET kept == Len(e.properties) - Len(FragmentsOf(e)) IN
    /\ kept >= 0
    /\ SubSeq(e.properties, kept + 1, Len(e.properties)) = FragmentsOf(e)
    /\ IsSubsequence(SubSeq(e.properties, 1, kept), e.parametersObject.properties)

C23_Witness ==
  /\ pc = "done"
  /\ target = "node"
  /\ ~production
  /\ \E e \in Processed :
       /\ ProducedSlots(e) = {"_scopeId", "_compiled", "template", "styles"}
       /\ Len(e.properties) = 7
       /\ IsNamed(e.properties[1], "components")

(***************************************************************************)
(* The keys of the string addParametersToExistingQuery produces.           *)
(***************************************************************************)
\* The parts of the query of a path, in their order.
RECURSIVE PartsFrom(_, _, _)
PartsFrom(q, start, i) ==
  IF i > Len(q) THEN <<SubSeq(q, start, Len(q))>>
  ELSE IF q[i] = "&" THEN <<SubSeq(q, start, i - 1)>> \o PartsFrom(q, i + 1, i + 1)
  ELSE PartsFrom(q, start, i + 1)

PartsInOrder(path) ==
  IF QueryText(path) = <<>> THEN <<>> ELSE PartsFrom(QueryText(path), 1, 1)

KeysInOrder(path) ==
  [i \in 1..Len(PartsInOrder(path)) |-> Unescaped(PartKey(PartsInOrder(path)[i]))]

\* The part of a path that has a key.
PartOf(path, key) ==
  PartsInOrder(path)[CHOOSE i \in 1..Len(PartsInOrder(path)) : KeysInOrder(path)[i] = key]

IsSupplied(extra, key) == \E j \in 1..Len(extra) : extra[j].key = key

\* The keys of the supplied parameters that the path does not have, in the
\* order they were supplied.
AddedKeys(path, extra) ==
  LET fresh(entry) == \A i \in 1..Len(KeysInOrder(path)) : KeysInOrder(path)[i] # entry.key
      added == SelectSeq(extra, fresh)
  IN [i \in 1..Len(added) |-> added[i].key]

\* The text of a supplied value.
SuppliedText(v) ==
  CASE v.kind = "string" -> v.text
    [] v.kind = "number" -> <<OrdinalText[v.num + 1]>>
    [] OTHER -> <<>>

\* The parts of the supplied keys: a bare key for null, key=value otherwise.
SuppliedAsClaimed(extra, out) ==
  \A j \in 1..Len(extra) :
    (\E i \in 1..Len(KeysInOrder(out)) : KeysInOrder(out)[i] = extra[j].key) =>
      PartOf(out, extra[j].key) =
        (IF extra[j].val.kind = "null" THEN extra[j].key
         ELSE extra[j].key \o <<"=">> \o SuppliedText(extra[j].val))

\* One call as C24 states it.
KeysAsClaimed(path, extra, out) ==
  /\ KeysInOrder(out) = KeysInOrder(path) \o AddedKeys(path, extra)
  /\ SuppliedAsClaimed(extra, out)

\* One call, with the keys whose supplied value is undefined left out.
KeysAsRendered(path, extra, out) ==
  LET defined(key) == \A j \in 1..Len(extra) : extra[j].key = key => extra[j].val.kind # "undefined"
  IN /\ KeysInOrder(out) = SelectSeq(KeysInOrder(path) \o AddedKeys(path, extra), defined)
     /\ SuppliedAsClaimed(extra, out)

IsUnkeyed(p) ==
  ~(p.kind = "PropertyAssignment" /\ p.nameKind \in {"Identifier", "StringLiteral"})

\* The additional assignments of a parsed object.
BucketOf(parsed) ==
  IF hasKey(parsed.entries, additionalObjectLiteralAssignmentsKey)
  THEN getKey(parsed.entries, additionalObjectLiteralAssignmentsKey).nodes
  ELSE <<>>

\* C25 as stated: for the object literal written as the styles of a
\* processed class, the additional assignments of its parsed value are its
\* entries with no compile-time name, computed names and spreads alike, in
\* their order, and each of them is an entry of the literal constructed from
\* the parsed value.
C25_UnkeyedEntriesKept ==
  \A e \in Processed :
    authoredStyles(e).kind = "ObjectLiteralExpression" =>
      /\ e.parameters.styles.kind = "object"
      /\ BucketOf(e.parameters.styles) = SelectSeq(authoredStyles(e).properties, IsUnkeyed)
      /\ \A i \in 1..Len(authoredStyles(e).properties) :
           IsUnkeyed(authoredStyles(e).properties[i]) =>
             \E j \in 1..Len(constructObjectLiteral(e.parameters.styles).properties) :
               constructObjectLiteral(e.parameters.styles).properties[j]
                 = authoredStyles(e).properties[i]

(***************************************************************************)
(* Several applications of the decorator on one class.                     *)
(***************************************************************************)
\* The places of the applications @Component(...) among the decorators.
ApplicationsOf(c) ==
  { j \in 1..Len(c.decorators) :
      /\ c.decorators[j].expression.kind = "CallExpression"
      /\ c.decorators[j].expression.expression.kind = "Identifier"
      /\ c.decorators[j].expression.expression.ident = "Component" }

\* Those whose only argument is an object literal.
LiteralApplicationsOf(c) ==
  { j \in ApplicationsOf(c) :
      /\ Len(c.decorators[j].expression.arguments) = 1
      /\ c.decorators[j].expression.arguments[1].kind = "ObjectLiteralExpression" }

Last(places) == CHOOSE j \in places : \A k \in places : k <= j

\* The literal of a processed class is the argument of the decorator at a
\* place, and only this decorator differs between input and output.
RewrittenAt(e, place) ==
  LET before == NodeAt(source.statements, e.path)
      after == NodeAt(root, e.path)
  IN /\ Len(before.decorators[place].expression.arguments) = 1
     /\ e.parametersObject = before.decorators[place].expression.arguments[1]
     /\ Len(after.decorators) = Len(before.decorators)
     /\ after.decorators[place].expression.arguments[1].kind = "ObjectLiteralExpression"
     /\ after.decorators[place].expression.arguments[1].properties = e.properties
     /\ \A j \in 1..Len(before.decorators) :
          j # place => after.decorators[j] = before.decorators[j]

C27_TopLevelCountsAsExported ==
  (pc = "done" /\ source.hasMarker) =>
    \A i \in 1..Len(source.statements) :
      (source.statements[i].kind = "ClassDeclaration"
         /\ HasLiteralArgument(source.statements[i])) =>
        \E e \in Processed : e.path = <<i>>

(***************************************************************************)
(* The template paths of the hot reload table.                             *)
(***************************************************************************)
\* The rerender calls keyed by the scope identifier of a processed class.
RerenderCallsFor(e) ==
  { i \in 1..Len(result.glue.rerender) : result.glue.rerender[i].scopeId = ScopeIdOf(e) }

\* C28 as stated: the table entry written for a processed class has a
\* template path exactly when the class got a template spread, the path is
\* the string argument of the spread import, and the hot reload code has
\* one rerender call with that path for the scope identifier of each such
\* class and none for the scope identifier of another class.
C28_RerenderPerTemplate ==
  /\ \A e \in Processed :
       /\ (e.templateFilePath # JSNull) <=> templateTransformed(e)
       /\ templateTransformed(e) => e.templateFilePath = JSString(templatePathOf(e))
  /\ (pc = "done" /\ result.glue.present) =>
       /\ \A e \in Processed :
            IF templateTransformed(e)
            THEN /\ Cardinality(RerenderCallsFor(e)) = 1
                 /\ \A i \in RerenderCallsFor(e) :
                      result.glue.rerender[i].templateFilePath = templatePathOf(e)
            ELSE RerenderCallsFor(e) = {}
       /\ Len(result.glue.rerender)
            = Cardinality({ k \in 1..Len(log) : templateTransformed(log[k]) })

(***************************************************************************)
(* The initializer of the produced styles property.                        *)
(***************************************************************************)
\* The kinds of the values the parser reconstructs, which are not nodes.
ReconstructedKinds ==
  {"string", "number", "boolean", "null", "undefined", "object", "array", "nodelist"}

\* C29 as stated: the initializer of a produced styles property is a syntax
\* node, also when the styles were written as a number or as true.
C29_StylesInitializerIsNode ==
  \A e \in Processed :
    "styles" \in ProducedSlots(e) =>
      e.transformedProperties.stylesProperty.initializer.kind \notin ReconstructedKinds

(***************************************************************************)
(* One scope identifier per class: paths, _scopeId and hot reload code.    *)
(***************************************************************************)
\* The values a generated path has for a key.
ValuesOf(path, key) == { par.val : par \in { q \in ParametersOf(path) : q.key = key } }

\* The generated import paths of a class that carry an id.
PathsWithId(e) == { pp.generated : pp \in { q \in PathPairs(e) : ValuesOf(q.generated, <<"id">>) # {} } }

\* C30 as stated: a generated import path with an id has the scope
\* identifier of its class as the id and scoped=true; a class with such a
\* path has _scopeId "data-v-" and that identifier in its literal, and the
\* hot reload code registers the class under the same identifier.
C30_OneIdentifierPerClass ==
  \A e \in Processed :
    /\ \A path \in PathsWithId(e) :
         /\ ValuesOf(path, <<"id">>) = {ScopeIdOf(e)}
         /\ ValuesOf(path, <<"scoped">>) = {<<"true">>}
    /\ PathsWithId(e) # {} =>
         /\ propertyOf(e.properties, "_scopeId")
              = StringLiteral(<<"data-v-">> \o ScopeIdOf(e))
         /\ (pc = "done" /\ result.glue.present) =>
              Cardinality(CallsFor(result.glue.createRecord, e)) = 1

====
